---- MODULE Spec2Model ----
(***************************************************************************)
(* A model of the BlockRun x402 gateway of PredictOS:                      *)
(*   supabase/functions/_shared/ai/callBlockRun.ts                         *)
(* One call of callBlockRunResponses is a sequential state machine that    *)
(* is cut at its awaits: the unauthenticated fetch, the signing of the     *)
(* payment header, the paid fetch and the backoff sleep.                   *)
(*                                                                         *)
(* Text is modelled as a sequence of words.  toLowerCase() lower-cases     *)
(* each word and includes(needle) looks for the needle's words as a        *)
(* contiguous run of the message's words.                                  *)
(***************************************************************************)
EXTENDS Integers, Sequences, FiniteSets, TLC

\* How long the clock of one network wait is followed, in ms.
WaitHorizon == 240000

\* The largest maxRetries a caller passes in this model.
MaxRetriesBound == 6

\* ------------------------------------------------------------------ text

\* String.prototype.toLowerCase on the words of the model's vocabulary.
LowerWord(w) ==
  CASE w = "BlockRun" -> "blockrun"
    [] w = "API" -> "api"
    [] w = "Bad" -> "bad"
    [] w = "Request" -> "request"
    [] w = "Timeout" -> "timeout"
    [] w = "Too" -> "too"
    [] w = "Many" -> "many"
    [] w = "Requests" -> "requests"
    [] w = "Service" -> "service"
    [] w = "Unavailable" -> "unavailable"
    [] w = "Payment" -> "payment"
    [] w = "Required" -> "required"
    [] w = "Failed" -> "failed"
    [] w = "Error:" -> "error:"
    [] w = "Base" -> "base"
    [] w = "Connection" -> "connection"
    [] w = "SyntaxError:" -> "syntaxerror:"
    [] w = "Unexpected" -> "unexpected"
    [] w = "JSON" -> "json"
    [] w = "InvalidCharacterError:" -> "invalidcharactererror:"
    [] w = "OK" -> "ok"
    [] w = "Cannot" -> "cannot"
    [] w = "BigInt" -> "bigint"
    [] w = "Not" -> "not"
    [] w = "Found" -> "found"
    [] w = "Event" -> "event"
    [] OTHER -> w

ToLowerCase(msg) == [i \in 1..Len(msg) |-> LowerWord(msg[i])]

\* String.prototype.includes
Includes(msg, needle) ==
  \E i \in 1..(Len(msg) - Len(needle) + 1) :
    SubSeq(msg, i, i + Len(needle) - 1) = needle

\* An Error object: its message, and (for the record only) the attempt that built it.
MkError(msg, att) == [isError |-> TRUE, msg |-> msg, att |-> att]

NoError == [isError |-> FALSE, msg |-> <<>>, att |-> -1]

\* isRetryableError without the timeout substring.
isRetryableError_NoTimeout(error) ==
  IF error.isError
  THEN LET message == ToLowerCase(error.msg)
       IN \/ Includes(message, <<"connection">>)
          \/ Includes(message, <<"tls">>)
          \/ Includes(message, <<"eof">>)
          \/ Includes(message, <<"network">>)
          \/ Includes(message, <<"fetch", "failed">>)
  ELSE FALSE

isRetryableError(error) ==
  IF error.isError
  THEN LET message == ToLowerCase(error.msg)
       IN \/ Includes(message, <<"connection">>)
          \/ Includes(message, <<"tls">>)
          \/ Includes(message, <<"timeout">>)
          \/ Includes(message, <<"eof">>)
          \/ Includes(message, <<"network">>)
          \/ Includes(message, <<"fetch", "failed">>)
  ELSE FALSE

Min(a, b) == IF a < b THEN a ELSE b

\* BackoffMs without the 10000 ms ceiling.
BackoffMs_NoCap(att) == 1000 * (2 ^ att)

\* const backoffMs = Math.min(1000 * Math.pow(2, attempt), 10000)
BackoffMs(att) == Min(1000 * (2 ^ att), 10000)

\* ---------------------------------------------------------------- inputs

\* A string-valued amount field of a payment option: absent, or a decimal string.
NoAmount == [set |-> FALSE, int |-> FALSE, val |-> 0]

Amount(n) == [set |-> TRUE, int |-> TRUE, val |-> n]

\* A non-empty amount string that is not an integer literal, such as "1.5".
BadAmount == [set |-> TRUE, int |-> FALSE, val |-> 0]

\* The maxTimeoutSeconds field of a payment option: absent, or a number.
NoTimeout == [set |-> FALSE, val |-> 0]

Timeout(n) == [set |-> TRUE, val |-> n]

\* The extra field of a payment option: absent, or {name, version}.
NoExtra == [set |-> FALSE, name |-> "", version |-> ""]

Extra(name, version) == [set |-> TRUE, name |-> name, version |-> version]

\* BlockRunPaymentRequirements, as far as the gateway reads it.
Requirement(network, amount, maxAmountRequired, maxTimeoutSeconds, payTo, extra) ==
  [network |-> network, amount |-> amount, maxAmountRequired |-> maxAmountRequired,
   maxTimeoutSeconds |-> maxTimeoutSeconds, payTo |-> payTo, asset |-> "0xUSDC",
   extra |-> extra]

PayOption(network, amount, maxAmountRequired) ==
  Requirement(network, amount, maxAmountRequired, NoTimeout, "0xPayee", NoExtra)

SolanaOption == PayOption("solana", Amount(1000), NoAmount)

BaseChainOption == PayOption("eip155:8453", Amount(1000), NoAmount)

BaseAliasOption == PayOption("base", NoAmount, Amount(2500000))

\* The payment-required header of a 402 response: missing; present but not
\* base64 of JSON; or a decoded payload, which lists its options under
\* accepts or is itself the one option.
NoHeader == [present |-> FALSE, decodes |-> FALSE, hasAccepts |-> FALSE,
             accepts |-> <<>>, self |-> SolanaOption]

BadHeader == [present |-> TRUE, decodes |-> FALSE, hasAccepts |-> FALSE,
              accepts |-> <<>>, self |-> SolanaOption]

AcceptsHeader(opts) == [present |-> TRUE, decodes |-> TRUE, hasAccepts |-> TRUE,
                        accepts |-> opts, self |-> SolanaOption]

SingleHeader(opt) == [present |-> TRUE, decodes |-> TRUE, hasAccepts |-> FALSE,
                      accepts |-> <<>>, self |-> opt]

\* A Base option whose amount is no integer literal, such as "1.5".
FractionOption == PayOption("base", BadAmount, NoAmount)

ChallengeHeaders ==
  { NoHeader, BadHeader,
    AcceptsHeader(<<SolanaOption>>),
    AcceptsHeader(<<SolanaOption, BaseChainOption>>),
    SingleHeader(BaseAliasOption),
    SingleHeader(FractionOption) }

\* An optional number or string of a JSON object.
NoNumber == [set |-> FALSE, val |-> 0]

Number(n) == [set |-> TRUE, val |-> n]

NoString == [set |-> FALSE, val |-> ""]

String(s) == [set |-> TRUE, val |-> s]

\* A choice: message and message.content are optional.
Choice(hasMessage, content) ==
  [message |-> [set |-> hasMessage, content |-> content]]

NoChoices == [set |-> FALSE, list |-> <<>>]

Choices(list) == [set |-> TRUE, list |-> list]

NoUsage ==
  [set |-> FALSE, prompt_tokens |-> NoNumber, completion_tokens |-> NoNumber,
   total_tokens |-> NoNumber]

Usage(prompt, completion, total) ==
  [set |-> TRUE, prompt_tokens |-> prompt, completion_tokens |-> completion,
   total_tokens |-> total]

NoCitations == [set |-> FALSE, list |-> <<>>]

Citations(list) == [set |-> TRUE, list |-> list]

\* What response.json() can give: a JSON object with its optional fields,
\* or a JSON value that is no object (null).
RawResponse(choices, usage, model, citations) ==
  [isObject |-> TRUE, choices |-> choices, usage |-> usage, model |-> model,
   citations |-> citations]

NullResponse ==
  [isObject |-> FALSE, choices |-> NoChoices, usage |-> NoUsage, model |-> NoString,
   citations |-> NoCitations]

\* A chat completion with one choice.
Completion(content) ==
  RawResponse(Choices(<<Choice(TRUE, String(content))>>),
              Usage(Number(12), Number(30), Number(42)),
              String("openai/gpt-4o"), NoCitations)

\* A response body: whether it parses as JSON, its content and the object it
\* parses to when it does, and its words when it is read as text.
JsonBody(content) ==
  [json |-> TRUE, content |-> content, text |-> <<content>>,
   parsed |-> Completion(content)]

TextBody(text) ==
  [json |-> FALSE, content |-> "", text |-> text, parsed |-> NullResponse]

OkBodies == { JsonBody("X"), TextBody(<<"gateway", "page">>) }

ErrorBodies == { TextBody(<<"invalid", "model">>),
                 TextBody(<<"upstream", "connection", "refused">>) }

StatusText(status) ==
  CASE status = 200 -> <<"OK">>
    [] status = 400 -> <<"Bad", "Request">>
    [] status = 402 -> <<"Payment", "Required">>
    [] status = 408 -> <<"Request", "Timeout">>
    [] status = 429 -> <<"Too", "Many", "Requests">>
    [] status = 503 -> <<"Service", "Unavailable">>

ErrorStatuses == {400, 408, 429, 503}

\* What one fetch() can do: resolve with a response, be aborted by the
\* controller's signal, or reject with another transport error.
Response(status, body, header) ==
  [kind |-> "response", status |-> status, statusText |-> StatusText(status),
   body |-> body, header |-> header, err |-> <<>>]

Rejects(kind, msg) ==
  [kind |-> kind, status |-> 0, statusText |-> <<>>,
   body |-> TextBody(<<>>), header |-> NoHeader, err |-> msg]

TransportOutcomes ==
  { Rejects("abort", <<"The", "signal", "has", "been", "aborted">>),
    Rejects("reject", <<"Connection", "reset", "by", "peer">>),
    Rejects("reject", <<"dns", "error">>) }

InitialOutcomes ==
  { Response(200, b, NoHeader) : b \in OkBodies }
    \cup { Response(s, b, NoHeader) : s \in ErrorStatuses, b \in ErrorBodies }
    \cup { Response(402, TextBody(<<>>), h) : h \in ChallengeHeaders }
    \cup TransportOutcomes

PaidOutcomes ==
  { Response(200, b, NoHeader) : b \in OkBodies }
    \cup { Response(s, b, NoHeader) : s \in ErrorStatuses \cup {402}, b \in ErrorBodies }
    \cup TransportOutcomes

\* createNonce returning one fixed value on every call.
createNonce_Fixed(drawn) == 1

\* createNonce: 32 random bytes, modelled as a value no earlier call returned
\* (the count of the nonces drawn before it, plus one).
createNonce(drawn) == drawn + 1

\* What createBlockRunPaymentHeader can do: return a header, or throw.
SignOutcomes ==
  { Rejects("signed", <<>>),
    Rejects("reject", <<"invalid", "private", "key">>),
    Rejects("reject", <<"import", "failed:", "connection", "refused">>) }

\* Response.ok
Ok(r) == r.status >= 200 /\ r.status <= 299

\* ------------------------------------------------------- pure functions

\* fetchWithTimeout: an abort becomes the timeout error, anything else is
\* handed on unchanged.
FetchWithTimeout(out, timeoutMs) ==
  IF out.kind = "abort"
  THEN Rejects("reject", <<"Request", "timeout", "after", ToString(timeoutMs) \o "ms">>)
  ELSE out

\* a || b || "0" on amount strings
AmountOf(req) ==
  IF req.amount.set THEN req.amount
  ELSE IF req.maxAmountRequired.set THEN req.maxAmountRequired
  ELSE Amount(0)

NoCost == [tag |-> "undefined", dollars |-> 0, micros |-> 0]

\* formatUsdcCost that takes the atomic unit for a cent.
formatUsdcCost_Cents(atomicUnits) ==
  IF atomicUnits.int
  THEN [tag |-> "usd", dollars |-> atomicUnits.val \div 100,
        micros |-> (atomicUnits.val % 100) * 10000]
  ELSE [tag |-> "Unknown", dollars |-> 0, micros |-> 0]

\* formatUsdcCost: "$" dollars "." micros (six digits), or "Unknown" when
\* BigInt throws.
formatUsdcCost(atomicUnits) ==
  IF atomicUnits.int
  THEN [tag |-> "usd", dollars |-> atomicUnits.val \div 1000000,
        micros |-> atomicUnits.val % 1000000]
  ELSE [tag |-> "Unknown", dollars |-> 0, micros |-> 0]

\* parsed.accepts || [parsed]
Accepts(parsed) == IF parsed.hasAccepts THEN parsed.accepts ELSE <<parsed.self>>

\* IsBaseOption that compares the network name without regard to case.
IsBaseOption_AnyCase(a) ==
  LowerWord(a.network) = "eip155:8453" \/ LowerWord(a.network) = "base"

\* a.network === "eip155:8453" || a.network === "base"
IsBaseOption(a) == a.network = "eip155:8453" \/ a.network = "base"

\* FindBaseOption taking the first option listed, whatever its network.
FindBaseOption_FirstListed(accepts) == IF Len(accepts) > 0 THEN 1 ELSE 0

\* accepts.find(...): the index of the first Base option, 0 when there is none.
FindBaseOption(accepts) ==
  IF \E i \in 1..Len(accepts) : IsBaseOption(accepts[i])
  THEN CHOOSE i \in 1..Len(accepts) :
         /\ IsBaseOption(accepts[i])
         /\ \A j \in 1..(i - 1) : ~IsBaseOption(accepts[j])
  ELSE 0

\* OrZero that leaves a missing counter out (-1 stands for undefined).
OrZero_Undefined(n) == IF n.set THEN n.val ELSE -1

\* n || 0
OrZero(n) == IF n.set THEN n.val ELSE 0

\* choices[0]?.message?.content || ""
OutputTextOf(choices) ==
  IF /\ Len(choices) > 0
     /\ choices[1].message.set
     /\ choices[1].message.content.set
  THEN choices[1].message.content.val
  ELSE ""

\* transformToResponseResult; threw stands for the TypeError of reading a
\* property of null.  created_at and the ids, which are read off the clock,
\* are left out.
transformToResponseResult(response, paymentCost) ==
  LET choices == IF response.choices.set THEN response.choices.list ELSE <<>>
      usage == IF response.usage.set THEN response.usage ELSE NoUsage
      outputText == OutputTextOf(choices)
  IN [threw |-> ~response.isObject,
      model |-> IF response.model.set /\ response.model.val # ""
                THEN response.model.val ELSE "unknown",
      object |-> "response",
      output |-> << [content |-> << [type |-> "output_text", text |-> outputText] >>,
                     role |-> "assistant", type |-> "message",
                     status |-> "completed"] >>,
      usage |-> [input_tokens |-> OrZero(usage.prompt_tokens),
                 output_tokens |-> OrZero(usage.completion_tokens),
                 total_tokens |-> OrZero(usage.total_tokens)],
      status |-> "completed",
      blockrun |-> [paymentCost |-> paymentCost, citations |-> response.citations]]

NoResult == [value |-> transformToResponseResult(Completion(""), NoCost), att |-> -1]

\* ---------------------------------------------------------------- signer

\* paymentRequirements.maxTimeoutSeconds || 300
TimeoutOr300(req) ==
  IF req.maxTimeoutSeconds.set /\ req.maxTimeoutSeconds.val # 0
  THEN req.maxTimeoutSeconds.val
  ELSE 300

\* TimeoutOr300 that takes the default only when the field is absent.
ValidBefore_ZeroKept(req, now) ==
  now + (IF req.maxTimeoutSeconds.set THEN req.maxTimeoutSeconds.val ELSE 300)

\* const validBefore = now + (paymentRequirements.maxTimeoutSeconds || 300)
ValidBefore(req, now) == now + TimeoutOr300(req)

\* const validAfter = now - 600
ValidAfter(now) == now - 600

\* The authorization object: its value is the amount string.
Authorization(req, now, nonce) ==
  [from |-> "0xWallet", to |-> req.payTo, value |-> AmountOf(req),
   validAfter |-> ValidAfter(now), validBefore |-> ValidBefore(req, now),
   nonce |-> nonce]

\* The typed-data message handed to signTypedData: its value is
\* BigInt(amount string).
TypedMessage(req, now, nonce) ==
  [from |-> "0xWallet", to |-> req.payTo, value |-> AmountOf(req).val,
   validAfter |-> ValidAfter(now), validBefore |-> ValidBefore(req, now),
   nonce |-> nonce]

\* The EIP-712 domain.
Domain(req) ==
  [name |-> IF req.extra.set /\ req.extra.name # "" THEN req.extra.name ELSE "USD Coin",
   version |-> IF req.extra.set /\ req.extra.version # "" THEN req.extra.version ELSE "2",
   chainId |-> 8453,
   verifyingContract |-> req.asset]

\* The accepted echo with the amount taken from maxAmountRequired first.
AcceptedEcho_MaxFirst(req) ==
  [network |-> req.network, asset |-> req.asset,
   amount |-> IF req.maxAmountRequired.set THEN req.maxAmountRequired
              ELSE AmountOf(req),
   payTo |-> req.payTo, maxTimeoutSeconds |-> TimeoutOr300(req)]

\* paymentPayload.accepted
AcceptedEcho(req) ==
  [network |-> req.network, asset |-> req.asset, amount |-> AmountOf(req),
   payTo |-> req.payTo, maxTimeoutSeconds |-> TimeoutOr300(req)]

NoPayload ==
  [accepted |-> AcceptedEcho(PayOption("", NoAmount, NoAmount)),
   authorization |-> Authorization(PayOption("", NoAmount, NoAmount), 0, 0),
   signature |-> [domain |-> Domain(PayOption("", NoAmount, NoAmount)),
                  message |-> TypedMessage(PayOption("", NoAmount, NoAmount), 0, 0)]]

\* createBlockRunPaymentHeader: wallet is what the wallet library does (a
\* member of SignOutcomes).  The signature is modelled as the domain and the
\* message it was made over.  BigInt throws on an amount string that is no
\* integer literal.
createBlockRunPaymentHeader(wallet, req, now, nonce) ==
  IF wallet.kind # "signed"
  THEN [ok |-> FALSE, err |-> wallet.err, payload |-> NoPayload]
  ELSE IF ~AmountOf(req).int
  THEN [ok |-> FALSE,
        err |-> <<"Cannot", "convert", "1.5", "to", "a", "BigInt">>,
        payload |-> NoPayload]
  ELSE [ok |-> TRUE, err |-> <<>>,
        payload |-> [accepted |-> AcceptedEcho(req),
                     authorization |-> Authorization(req, now, nonce),
                     signature |-> [domain |-> Domain(req),
                                    message |-> TypedMessage(req, now, nonce)]]]

\* Math.floor(Date.now() / 1000) at the signing, in the model.
Nows == {1000, 1700000000}

\* ----------------------------------------------------------------- state

VARIABLES
  walletKey,        \* whether BLOCKRUN_WALLET_KEY is set
  maxRetries,       \* the caller's maxRetries
  pc,               \* idle, fetch1, sign, fetch2, sleep, done, failed
  attempt,          \* the loop counter
  lastError,        \* let lastError
  paymentCost,      \* let paymentCost
  paymentRequirements, \* the option selected in this attempt
  paymentHeader,    \* the nonce of the header built in this attempt, 0 for none
  result,           \* the value returned
  thrown,           \* the error thrown to the caller
  \* What an observer of the call sees (no code reads these):
  nUnauth,          \* unauthenticated requests sent
  paidHdrs,         \* the header nonces of the paid requests sent, in order
  paidInAttempt,    \* paid requests sent in the current attempt
  signsInAttempt,   \* signings started in the current attempt
  nonces,           \* authorizations signed so far (the next nonce is nonces + 1)
  inFlight,         \* requests sent whose fetch has not settled yet
  sleeps,           \* the backoff sleeps slept, in order: <<after attempt, ms>>
  lastIn,           \* the outcome the last step handled: phase, attempt, outcome
  initialOut,       \* the outcome of the current attempt's unauthenticated request
  \* The parts of the program exercised on their own:
  signer,           \* one challenge through option selection and signing
  agent,            \* one request through the event-analysis-agent handler
  norm,             \* one upstream body through transformToResponseResult
  wait,             \* one network wait of a call: fetchWithTimeout, then the body
  pair,             \* two callBlockRunResponses calls running side by side
  clob,             \* one PolymarketClient with concurrent placeOrder calls
  bot,              \* one request through the limit-order bot handler
  events,           \* one request through the get-events handler
  journal           \* the log of one PolymarketClient and the logs of its request

callVars == <<walletKey, maxRetries, pc, attempt, lastError, paymentCost,
              paymentRequirements, paymentHeader, result, thrown, nUnauth, paidHdrs,
              paidInAttempt, signsInAttempt, nonces, inFlight, sleeps, lastIn,
              initialOut>>

\* The parts added to the first three.
others == <<wait, pair, clob, bot, events, journal>>

aux == <<signer, agent, norm, others>>

vars == <<callVars, aux>>

Off == [pc |-> "off"]

\* None of the parts added to the first three is running.
RestOff ==
  /\ wait = Off
  /\ pair = Off
  /\ clob = Off
  /\ bot = Off
  /\ events = Off /\ journal = Off

NoInput == [phase |-> "none", att |-> -1, out |-> Rejects("none", <<>>)]

\* callBlockRunResponses before it is called with maxRetries = r.
CallInit(keys, retries) ==
  /\ walletKey \in keys
  /\ maxRetries \in retries
  /\ pc = "idle"
  /\ attempt = 0
  /\ lastError = NoError
  /\ paymentCost = NoCost
  /\ paymentRequirements = SolanaOption
  /\ paymentHeader = 0
  /\ result = NoResult
  /\ thrown = NoError
  /\ nUnauth = 0
  /\ paidHdrs = <<>>
  /\ paidInAttempt = 0
  /\ signsInAttempt = 0
  /\ nonces = 0
  /\ inFlight = 0
  /\ sleeps = <<>>
  /\ lastIn = NoInput
  /\ initialOut = NoInput.out

Init ==
  /\ CallInit(BOOLEAN, -1..MaxRetriesBound)
  /\ signer = Off
  /\ agent = Off
  /\ norm = Off
  /\ RestOff

\* An await that goes on while the request is still in flight.
Await_Detached(requests) == requests

\* await fetchWithTimeout(...): the code goes on when the fetch has settled,
\* with a response, a failure or the abort of its timeout.
Await(requests) == requests - 1

\* throw error, out of the call
Throw(error) ==
  /\ pc' = "failed"
  /\ thrown' = error
  /\ UNCHANGED sleeps

\* await sleep(backoffMs), after which the loop goes round
Sleep ==
  /\ pc' = "sleep"
  /\ sleeps' = Append(sleeps, <<attempt, BackoffMs(attempt)>>)
  /\ UNCHANGED thrown

\* Catch without the first-attempt test: every error is retried while
\* attempts remain.
Catch_NoFirstAttemptTest(error) ==
  /\ lastError' = error
  /\ IF attempt >= maxRetries
     THEN Throw(error)
     ELSE Sleep

\* The catch block of the loop body.
Catch(error) ==
  /\ lastError' = error
  /\ IF ~isRetryableError(error) /\ attempt = 0
     THEN Throw(error)
     ELSE IF attempt >= maxRetries
     THEN Throw(error)
     ELSE Sleep

\* RetryOrThrow that, out of attempts, throws the error it had recorded
\* before this response instead of this response's error.
RetryOrThrow_StaleError(error) ==
  IF attempt < maxRetries
  THEN lastError' = error /\ Sleep
  ELSE /\ UNCHANGED lastError
       /\ Throw(IF lastError.isError THEN lastError ELSE error)

\* A non-ok response that is not a client error: lastError = error, then
\* back off and continue, or throw error (into the catch block).
RetryOrThrow(error) ==
  IF attempt < maxRetries
  THEN lastError' = error /\ Sleep
  ELSE Catch(error)

\* A non-ok response on either request.
OnErrorResponse(error, status) ==
  IF status >= 400 /\ status < 500 /\ status # 429
  THEN Catch(error)
  ELSE RetryOrThrow(error)

\* The result carrying a cost only when this attempt parsed a challenge, as
\* with paymentCost declared inside the loop.
OnOkResponse_CostOfThisAttempt(body, cost) ==
  IF body.json
  THEN /\ pc' = "done"
       /\ result' = [value |-> transformToResponseResult(
                                 body.parsed, IF signsInAttempt > 0 THEN cost ELSE NoCost),
                     att |-> attempt]
       /\ UNCHANGED <<lastError, thrown, sleeps>>
  ELSE /\ Catch(MkError(<<"Unexpected", "token", "in", "JSON">>, attempt))
       /\ UNCHANGED result

\* return transformToResponseResult(await response.json(), paymentCost)
OnOkResponse(body, cost) ==
  IF body.json
  THEN /\ pc' = "done"
       /\ result' = [value |-> transformToResponseResult(body.parsed, cost),
                     att |-> attempt]
       /\ UNCHANGED <<lastError, thrown, sleeps>>
  ELSE /\ Catch(MkError(<<"Unexpected", "token", "in", "JSON">>, attempt))
       /\ UNCHANGED result

\* The top of the loop: test attempt <= maxRetries and send the
\* unauthenticated request, or leave the loop and throw.
LoopFrom(att) ==
  /\ attempt' = att
  /\ paidInAttempt' = 0
  /\ signsInAttempt' = 0
  /\ paymentHeader' = 0
  /\ initialOut' = NoInput.out
  /\ IF att <= maxRetries
     THEN /\ pc' = "fetch1"
          /\ nUnauth' = nUnauth + 1
          /\ inFlight' = inFlight + 1
          /\ UNCHANGED thrown
     ELSE /\ pc' = "failed"
          /\ thrown' = IF lastError.isError THEN lastError
                       ELSE MkError(<<"Unknown", "error", "occurred">>, att)
          /\ UNCHANGED <<nUnauth, inFlight>>

\* The call starting its loop without the wallet key test.
Call_KeyNotChecked ==
  /\ pc = "idle"
  /\ LoopFrom(0)
  /\ UNCHANGED <<walletKey, maxRetries, lastError, paymentCost, paymentRequirements,
                 result, paidHdrs, nonces, sleeps, lastIn>>
  /\ UNCHANGED aux

\* callBlockRunResponses up to its first await.
Call ==
  /\ pc = "idle"
  /\ IF ~walletKey
     THEN /\ pc' = "failed"
          /\ thrown' = MkError(<<"BLOCKRUN_WALLET_KEY", "environment", "variable",
                                 "is", "not", "set.">>, 0)
          /\ UNCHANGED <<attempt, paidInAttempt, signsInAttempt, paymentHeader, nUnauth,
                         inFlight, initialOut>>
     ELSE LoopFrom(0)
  /\ UNCHANGED <<walletKey, maxRetries, lastError, paymentCost, paymentRequirements,
                 result, paidHdrs, nonces, sleeps, lastIn>>
  /\ UNCHANGED aux

\* Step 2 of the loop body: the 402 challenge, up to the call of the signer.
OnChallenge(header) ==
  IF ~header.present
  THEN /\ Catch(MkError(<<"BlockRun", "returned", "402", "but", "no",
                          "payment-required", "header", "found">>, attempt))
       /\ UNCHANGED <<paymentCost, paymentRequirements, signsInAttempt>>
  ELSE IF ~header.decodes
  THEN /\ Catch(MkError(<<"Failed", "to", "parse", "payment", "requirements:",
                          "SyntaxError:", "Unexpected", "token", "in", "JSON">>, attempt))
       /\ UNCHANGED <<paymentCost, paymentRequirements, signsInAttempt>>
  ELSE LET accepts == Accepts(header)
           i == FindBaseOption(accepts)
       IN IF i = 0
          THEN /\ Catch(MkError(<<"Failed", "to", "parse", "payment", "requirements:",
                                  "Error:", "BlockRun", "does", "not", "accept", "Base",
                                  "network", "payments">>, attempt))
               /\ UNCHANGED <<paymentCost, paymentRequirements, signsInAttempt>>
          ELSE /\ paymentRequirements' = accepts[i]
               /\ paymentCost' = formatUsdcCost(AmountOf(accepts[i]))
               /\ pc' = "sign"
               /\ signsInAttempt' = signsInAttempt + 1
               /\ UNCHANGED <<lastError, thrown, sleeps>>

\* The unauthenticated request settles.
InitialResponse ==
  /\ pc = "fetch1"
  /\ \E raw \in InitialOutcomes :
       LET out == FetchWithTimeout(raw, 120000)
       IN /\ lastIn' = [phase |-> "initial", att |-> attempt, out |-> out]
          /\ inFlight' = Await(inFlight)
          /\ initialOut' = out
          /\ IF out.kind # "response"
             THEN /\ Catch(MkError(out.err, attempt))
                  /\ UNCHANGED <<result, paymentCost, paymentRequirements, signsInAttempt>>
             ELSE IF out.status # 402
             THEN /\ IF Ok(out)
                     THEN OnOkResponse(out.body, paymentCost)
                     ELSE /\ OnErrorResponse(
                               MkError(<<"BlockRun", "API", "error:", ToString(out.status)>>
                                         \o out.statusText \o <<"-">> \o out.body.text,
                                       attempt),
                               out.status)
                          /\ UNCHANGED result
                  /\ UNCHANGED <<paymentCost, paymentRequirements, signsInAttempt>>
             ELSE /\ OnChallenge(out.header)
                  /\ UNCHANGED result
  /\ UNCHANGED <<walletKey, maxRetries, attempt, paymentHeader, nUnauth, paidHdrs,
                 paidInAttempt, nonces>>
  /\ UNCHANGED aux

\* createBlockRunPaymentHeader settles; on a header the paid request is sent.
Sign ==
  /\ pc = "sign"
  /\ \E wallet \in SignOutcomes, now \in Nows :
       LET made == createBlockRunPaymentHeader(wallet, paymentRequirements, now,
                                               createNonce(nonces))
           out == IF made.ok THEN Rejects("signed", <<>>)
                  ELSE Rejects("reject", made.err)
       IN
       /\ lastIn' = [phase |-> "sign", att |-> attempt, out |-> out]
       /\ IF made.ok
          THEN /\ nonces' = nonces + 1
               /\ paymentHeader' = createNonce(nonces)
               /\ paidHdrs' = Append(paidHdrs, paymentHeader')
               /\ paidInAttempt' = paidInAttempt + 1
               /\ inFlight' = inFlight + 1
               /\ pc' = "fetch2"
               /\ UNCHANGED <<lastError, thrown, sleeps>>
          ELSE /\ Catch(MkError(out.err, attempt))
               /\ UNCHANGED <<nonces, paymentHeader, paidHdrs, paidInAttempt, inFlight>>
  /\ UNCHANGED <<walletKey, maxRetries, attempt, paymentCost, paymentRequirements,
                 result, nUnauth, signsInAttempt, initialOut>>
  /\ UNCHANGED aux

\* The paid request settles.
PaidResponse ==
  /\ pc = "fetch2"
  /\ \E raw \in PaidOutcomes :
       LET out == FetchWithTimeout(raw, 120000)
       IN /\ lastIn' = [phase |-> "paid", att |-> attempt, out |-> out]
          /\ inFlight' = Await(inFlight)
          /\ IF out.kind # "response"
             THEN /\ Catch(MkError(out.err, attempt))
                  /\ UNCHANGED result
             ELSE IF ~Ok(out)
             THEN /\ OnErrorResponse(
                       MkError(<<"BlockRun", "payment", "failed:", ToString(out.status)>>
                                 \o out.statusText \o <<"-">> \o out.body.text,
                               attempt),
                       out.status)
                  /\ UNCHANGED result
             ELSE OnOkResponse(out.body, paymentCost)
  /\ UNCHANGED <<walletKey, maxRetries, attempt, paymentCost, paymentRequirements,
                 paymentHeader, nUnauth, paidHdrs, paidInAttempt, signsInAttempt, nonces,
                 initialOut>>
  /\ UNCHANGED aux

\* The backoff sleep ends: attempt++ and the loop goes round.
BackoffElapsed ==
  /\ pc = "sleep"
  /\ LoopFrom(attempt + 1)
  /\ UNCHANGED <<walletKey, maxRetries, lastError, paymentCost, paymentRequirements,
                 result, paidHdrs, nonces, sleeps, lastIn>>
  /\ UNCHANGED aux

Next == Call \/ InitialResponse \/ Sign \/ PaidResponse \/ BackoffElapsed

Spec == Init /\ [][Next]_vars

\* --------------------------------------------------------------- routing

\* A model string is the sequence of its pieces, cut at every "/" and "-",
\* the separators being pieces themselves: "blockrun/gpt-4o" is
\* <<"blockrun", "/", "gpt", "-", "4o">>.
StartsWith(s, prefix) ==
  Len(s) >= Len(prefix) /\ SubSeq(s, 1, Len(prefix)) = prefix

BlockRunName(name) == <<"blockrun", "/">> \o name

\* The own keys of BLOCKRUN_MODELS.
BLOCKRUN_MODELS ==
  { BlockRunName(<<"gpt", "-", "4o">>), BlockRunName(<<"gpt", "-", "4o", "-", "mini">>),
    BlockRunName(<<"gpt", "-", "4.1">>), BlockRunName(<<"gpt", "-", "5">>),
    BlockRunName(<<"o1">>), BlockRunName(<<"o3", "-", "mini">>),
    BlockRunName(<<"claude", "-", "sonnet", "-", "4">>),
    BlockRunName(<<"claude", "-", "opus", "-", "4">>),
    BlockRunName(<<"claude", "-", "haiku">>),
    BlockRunName(<<"grok", "-", "3">>), BlockRunName(<<"grok", "-", "3", "-", "fast">>),
    BlockRunName(<<"grok", "-", "3", "-", "mini">>),
    BlockRunName(<<"gemini", "-", "2.5", "-", "pro">>),
    BlockRunName(<<"gemini", "-", "2.5", "-", "flash">>),
    BlockRunName(<<"deepseek", "-", "chat">>), BlockRunName(<<"deepseek", "-", "reasoner">>),
    BlockRunName(<<"qwen", "-", "max">>), BlockRunName(<<"qwen", "-", "plus">>) }

\* The properties an object literal inherits from Object.prototype.
ObjectPrototype ==
  { <<"constructor">>, <<"toString">>, <<"toLocaleString">>, <<"valueOf">>,
    <<"hasOwnProperty">>, <<"isPrototypeOf">>, <<"propertyIsEnumerable">>,
    <<"__proto__">>, <<"__defineGetter__">>, <<"__defineSetter__">>,
    <<"__lookupGetter__">>, <<"__lookupSetter__">> }

\* key in object, for an object literal with the own keys given: the
\* operator looks along the prototype chain.
In(key, ownKeys) == key \in ownKeys \/ key \in ObjectPrototype

isBlockRunModel(model) ==
  StartsWith(model, <<"blockrun", "/">>) \/ In(model, BLOCKRUN_MODELS)

OPENAI_MODELS ==
  { <<"gpt", "-", "5.2">>, <<"gpt", "-", "5.1">>, <<"gpt", "-", "5", "-", "nano">>,
    <<"gpt", "-", "4.1">>, <<"gpt", "-", "4.1", "-", "mini">> }

isOpenAIModel(model) ==
  model \in OPENAI_MODELS \/ StartsWith(model, <<"gpt", "-">>)

getAIProvider(model) ==
  IF isBlockRunModel(model) THEN "blockrun"
  ELSE IF isOpenAIModel(model) THEN "openai"
  ELSE "grok"

\* ------------------------------------------------- event-analysis-agent

\* Text the gateways return is the sequence of its JSON tokens; line breaks
\* between tokens are white space to JSON.parse.
ParseJson(text) ==
  IF text = <<"{", "}">> THEN [ok |-> TRUE, value |-> "object"]
  ELSE IF text = <<"null">> THEN [ok |-> TRUE, value |-> "null"]
  ELSE [ok |-> FALSE, value |-> "none"]

RECURSIVE Join(_)
\* texts.join("\n")
Join(texts) == IF texts = <<>> THEN <<>> ELSE Head(texts) \o Join(Tail(texts))

RECURSIVE Defined(_)
\* .map((item) => item.text).filter((t) => t !== undefined)
Defined(content) ==
  IF content = <<>> THEN <<>>
  ELSE IF Head(content).defined
  THEN <<Head(content).text>> \o Defined(Tail(content))
  ELSE Defined(Tail(content))

RECURSIVE MessageContent(_)
\* The content of the items of type "message", in order.
MessageContent(output) ==
  IF output = <<>> THEN <<>>
  ELSE IF Head(output).type = "message"
  THEN Head(output).content \o MessageContent(Tail(output))
  ELSE MessageContent(Tail(output))

\* The text the handler extracts from a gateway's result.
ExtractText(output) == Join(Defined(MessageContent(output)))

OutputText(text) == [defined |-> TRUE, text |-> text]

NoText == [defined |-> FALSE, text |-> <<>>]

Item(type, content) == [type |-> type, content |-> content]

\* What a gateway's result can carry in output.
Outputs ==
  { <<>>,
    <<Item("message", <<OutputText(<<"{", "}">>)>>)>>,
    <<Item("message", <<OutputText(<<"{">>), OutputText(<<"}">>)>>)>>,
    <<Item("reasoning", <<OutputText(<<"thinking">>)>>),
      Item("message", <<OutputText(<<"{", "}">>)>>)>>,
    <<Item("message", <<OutputText(<<"{", "}">>)>>),
      Item("message", <<OutputText(<<"{", "}">>)>>)>>,
    <<Item("message", <<NoText, OutputText(<<"{", "}">>)>>)>>,
    <<Item("message", <<OutputText(<<"Sorry,", "no", "JSON">>)>>)>>,
    <<Item("message", <<OutputText(<<"null">>)>>)>> }

NoTokens == [set |-> FALSE, val |-> 0]

\* No gateway was awaited.
NoOutcome ==
  [threw |-> FALSE, isError |-> FALSE, message |-> <<>>, model |-> <<>>,
   tokens |-> NoTokens, cost |-> NoCost, output |-> <<>>]

\* What awaiting a gateway can give: a result, or a thrown error.
GatewayOutcomes(provider) ==
  { [threw |-> TRUE, isError |-> e[1], message |-> e[2], model |-> <<>>,
     tokens |-> NoTokens, cost |-> NoCost, output |-> <<>>] :
      e \in { <<TRUE, <<"BlockRun", "API", "error:", "503">>>>, <<FALSE, <<>>>> } }
    \cup
  { [threw |-> FALSE, isError |-> FALSE, message |-> <<>>, model |-> <<"served", "-", "model">>,
     tokens |-> t, cost |-> c, output |-> o] :
      t \in {NoTokens, [set |-> TRUE, val |-> 42]},
      c \in IF provider = "blockrun"
             THEN {NoCost, formatUsdcCost(Amount(1000))}
             ELSE {NoCost},
      o \in Outputs }

\* The model strings a request can name.
ModelNames ==
  { BlockRunName(<<"gpt", "-", "4o">>), BlockRunName(<<"unlisted">>),
    <<"gpt", "-", "4.1">>, <<"gpt", "-", "5.2">>, <<"gpt", "-", "4o">>,
    <<"grok", "-", "4">>, <<"openai", "/", "gpt", "-", "4o">>, <<"gpt">>,
    <<"Blockrun", "/", "gpt", "-", "4o">>, <<"GPT", "-", "4">>,
    <<"constructor">>, <<"toString">> }

AbsentModel == [kind |-> "absent", name |-> <<>>]

\* The JSON documents a request body can be, by what the handler reads of
\* them.  An object has markets (absent, not an array, an empty array, an
\* array of markets), eventIdentifier, pmType, model and tools.
NoFields ==
  [markets |-> "absent", eventIdentifier |-> "", pmType |-> "", model |-> AbsentModel,
   tools |-> "absent"]

RequestBodies ==
  { [kind |-> k, fields |-> NoFields] : k \in {"unreadable", "null", "number"} }
    \cup
  { [kind |-> "object",
     fields |-> [markets |-> m, eventIdentifier |-> e, pmType |-> p, model |-> n,
                 tools |-> t]] :
      m \in {"absent", "notArray", "empty", "some"},
      e \in {"", "KXBTC"},
      p \in {"", "Kalshi", "Polymarket", "kalshi"},
      n \in {AbsentModel, [kind |-> "number", name |-> <<>>],
             [kind |-> "string", name |-> <<>>]}
              \cup { [kind |-> "string", name |-> s] : s \in ModelNames },
      t \in {"absent", "list", "number"} }

Methods == {"OPTIONS", "GET", "PUT", "POST"}

\* Date.now() - startTime when the response is built.
Elapsed == {0, 1500}

NoMetadata ==
  [set |-> FALSE, requestId |-> "", timestamp |-> "", processingTimeMs |-> 0,
   model |-> <<>>, tokensUsed |-> NoTokens, paymentCost |-> NoCost]

\* metadata: requestId is crypto.randomUUID(), timestamp an ISO string.
Metadata(ms, model, tokens, cost) ==
  [set |-> TRUE, requestId |-> "uuid", timestamp |-> "iso", processingTimeMs |-> ms,
   model |-> model, tokensUsed |-> tokens, paymentCost |-> cost]

HttpResponse(status, json, success, error, data, metadata) ==
  [status |-> status, cors |-> TRUE, json |-> json, success |-> success,
   error |-> error, data |-> data, metadata |-> metadata]

\* new Response(null, { headers: corsHeaders })
Preflight == HttpResponse(200, FALSE, FALSE, <<>>, "none", NoMetadata)

\* { success: false, error } with a status
Refusal(status, error) == HttpResponse(status, TRUE, FALSE, error, "none", NoMetadata)

\* ErrorEnvelope that leaves the metadata out.
ErrorEnvelope_NoMetadata(error, ms) == Refusal(500, error)

\* The response of the outer catch block.
ErrorEnvelope(error, ms) ==
  HttpResponse(500, TRUE, FALSE, error, "none",
               Metadata(ms, <<"unknown">>, NoTokens, NoCost))

\* The response of the catch block around JSON.parse(text).
ParseFailure(ms, model, tokens) ==
  HttpResponse(500, TRUE, FALSE,
               <<"Failed", "to", "parse", "AI", "response", "as", "JSON">>, "none",
               Metadata(ms, model, tokens, NoCost))

\* The 200 response; paymentCost is left out unless it is truthy.
Success(ms, data, model, tokens, cost) ==
  HttpResponse(200, TRUE, TRUE, <<>>, data, Metadata(ms, model, tokens, cost))

\* ValidationError that looks at model before pmType.
ValidationError_ModelFirst(fields) ==
  IF fields.markets # "some"
  THEN <<"Missing", "or", "invalid", "'markets'", "parameter">>
  ELSE IF fields.eventIdentifier = ""
  THEN <<"Missing", "required", "parameter:", "'eventIdentifier'">>
  ELSE IF fields.model.kind = "absent" \/ fields.model = [kind |-> "string", name |-> <<>>]
  THEN <<"Missing", "required", "parameter:", "'model'">>
  ELSE IF fields.pmType \notin {"Kalshi", "Polymarket"}
  THEN <<"Invalid", "'pmType'.", "Must", "be", "'Kalshi'", "or", "'Polymarket'">>
  ELSE <<>>

\* The four tests of the required parameters: the error of the first that
\* fails, <<>> when all pass.
ValidationError(fields) ==
  IF fields.markets # "some"
  THEN <<"Missing", "or", "invalid", "'markets'", "parameter">>
  ELSE IF fields.eventIdentifier = ""
  THEN <<"Missing", "required", "parameter:", "'eventIdentifier'">>
  ELSE IF fields.pmType \notin {"Kalshi", "Polymarket"}
  THEN <<"Invalid", "'pmType'.", "Must", "be", "'Kalshi'", "or", "'Polymarket'">>
  ELSE IF fields.model.kind = "absent" \/ fields.model = [kind |-> "string", name |-> <<>>]
  THEN <<"Missing", "required", "parameter:", "'model'">>
  ELSE <<>>

\* agent: pc is where the handler stands, req the request, provider and
\* calls the gateway chosen and the calls made to it, got what the gateway
\* gave, responses the responses sent.
\* return new Response(...): raised names the exception the handler caught
\* on the way, "none" when it caught none.
Respond(a, response, raised) ==
  [a EXCEPT !.pc = "responded", !.responses = Append(@, response), !.raised = raised]

InitAgent ==
  /\ CallInit({TRUE}, {3})
  /\ signer = Off
  /\ norm = Off
  /\ RestOff
  /\ agent \in { [pc |-> "received", req |-> [method |-> m, body |-> b],
                   provider |-> "none", calls |-> 0, got |-> NoOutcome,
                   responses |-> <<>>, raised |-> "none"] : m \in Methods, b \in RequestBodies }

\* The handler up to the call of the gateway.
Receive ==
  /\ agent.pc = "received"
  /\ \E ms \in Elapsed, prompt \in {"built", "threw"} :
       LET req == agent.req
           fields == req.body.fields
           provider == getAIProvider(fields.model.name)
       IN agent' =
            IF req.method = "OPTIONS" THEN Respond(agent, Preflight, "none")
            ELSE IF req.method # "POST"
            THEN Respond(agent, Refusal(405, <<"Method", "not", "allowed.", "Use",
                                               "POST.">>), "none")
            ELSE IF req.body.kind \in {"unreadable", "null"}
            THEN Respond(agent, Refusal(400, <<"Invalid", "JSON", "in", "request",
                                               "body">>), "body")
            ELSE IF ValidationError(fields) # <<>>
            THEN Respond(agent, Refusal(400, ValidationError(fields)), "none")
            ELSE IF fields.model.kind # "string"
            THEN Respond(agent, ErrorEnvelope(<<"model.startsWith", "is", "not", "a",
                                                "function">>, ms), "route")
            ELSE IF prompt = "threw"
            THEN Respond(agent, ErrorEnvelope(<<"prompt", "failed">>, ms), "prompt")
            ELSE IF provider = "blockrun" /\ fields.tools = "number"
            THEN Respond(agent, ErrorEnvelope(<<"tools.includes", "is", "not", "a",
                                                "function">>, ms), "tools")
            ELSE [agent EXCEPT !.pc = "calling", !.provider = provider,
                               !.calls = @ + 1]
  /\ UNCHANGED <<callVars, signer, norm, others>>

\* The gateway settles: the handler extracts the text, parses it and answers.
GatewaySettles ==
  /\ agent.pc = "calling"
  /\ \E out \in GatewayOutcomes(agent.provider), ms \in Elapsed :
       LET parsed == ParseJson(ExtractText(out.output))
           settled == [agent EXCEPT !.got = out]
       IN agent' =
            IF out.threw
            THEN Respond(settled,
                         ErrorEnvelope(IF out.isError THEN out.message
                                       ELSE <<"An", "unexpected", "error", "occurred">>,
                                       ms),
                         "gateway")
            ELSE IF ~parsed.ok \/ parsed.value = "null"
            THEN Respond(settled, ParseFailure(ms, out.model, out.tokens), "parse")
            ELSE Respond(settled,
                         Success(ms, parsed.value, out.model, out.tokens, out.cost),
                         "none")
  /\ UNCHANGED <<callVars, signer, norm, others>>

NextAgent == Receive \/ GatewaySettles

SpecAgent == InitAgent /\ [][NextAgent]_vars

\* --------------------------------------------- the normalizer on its own

\* The JSON values response.json() can give the normalizer.
RawResponses ==
  {NullResponse}
    \cup
  { RawResponse(c, u, m, ci) :
      c \in { NoChoices, Choices(<<>>),
              Choices(<<Choice(FALSE, NoString)>>),
              Choices(<<Choice(TRUE, NoString)>>),
              Choices(<<Choice(TRUE, String("X"))>>),
              Choices(<<Choice(TRUE, String("X")), Choice(TRUE, String("Y"))>>) },
      u \in { NoUsage, Usage(NoNumber, NoNumber, NoNumber),
              Usage(Number(12), Number(30), Number(42)),
              Usage(Number(12), NoNumber, Number(12)) },
      m \in { NoString, String(""), String("openai/gpt-4o") },
      ci \in { NoCitations, Citations(<<"https://example.org">>) } }

InitNormalizer ==
  /\ CallInit({TRUE}, {3})
  /\ signer = Off
  /\ agent = Off
  /\ RestOff
  /\ norm \in { [pc |-> "raw", raw |-> r, cost |-> c,
                  out |-> transformToResponseResult(Completion(""), NoCost)] :
                  r \in RawResponses,
                  c \in {NoCost, formatUsdcCost(Amount(1000))} }

\* transformToResponseResult(await response.json(), paymentCost)
Normalize ==
  /\ norm.pc = "raw"
  /\ norm' = [norm EXCEPT !.pc = "done",
                          !.out = transformToResponseResult(norm.raw, norm.cost)]
  /\ UNCHANGED <<callVars, signer, agent, others>>

NextNormalizer == Normalize

SpecNormalizer == InitNormalizer /\ [][NextNormalizer]_vars

\* ------------------------------------------------- the signer on its own

\* The payment options a challenge can carry.
Requirements ==
  { Requirement(network, amounts[1], amounts[2], timeout, "0xPayee", extra) :
      network \in {"solana", "eip155:8453", "base", "Base"},
      amounts \in { <<NoAmount, NoAmount>>, <<Amount(1000), NoAmount>>,
                    <<NoAmount, Amount(2500000)>>, <<Amount(1000), Amount(2500000)>>,
                    <<BadAmount, Amount(1000)>> },
      timeout \in {NoTimeout, Timeout(0), Timeout(-100), Timeout(60)},
      extra \in {NoExtra, Extra("USDC", "1")} }

\* The decoded payment-required headers: an option on its own, a list led by
\* a Solana option, a list closed by another Base option, an empty list.
DecodedHeaders ==
  {AcceptsHeader(<<>>)}
    \cup { SingleHeader(r) : r \in Requirements }
    \cup { AcceptsHeader(<<SolanaOption, r>>) : r \in Requirements }
    \cup { AcceptsHeader(<<r, BaseChainOption>>) : r \in Requirements }

NoSigned == [ok |-> FALSE, err |-> <<>>, payload |-> NoPayload]

InitSigner ==
  /\ CallInit({TRUE}, {3})
  /\ agent = Off
  /\ norm = Off
  /\ RestOff
  /\ signer \in { [pc |-> "challenge", header |-> h, wallet |-> w, now |-> 0,
                    selected |-> 0, cost |-> NoCost, made |-> NoSigned] :
                    h \in DecodedHeaders, w \in SignOutcomes }

\* Lines 358-379: take the options of the decoded header, find the Base
\* option, work out the cost.
SelectOption ==
  /\ signer.pc = "challenge"
  /\ LET accepts == Accepts(signer.header)
         i == FindBaseOption(accepts)
     IN signer' = IF i = 0
                  THEN [signer EXCEPT !.pc = "rejected"]
                  ELSE [signer EXCEPT !.pc = "selected", !.selected = i,
                                      !.cost = formatUsdcCost(AmountOf(accepts[i]))]
  /\ UNCHANGED <<callVars, agent, norm, others>>

\* Lines 381-386: createBlockRunPaymentHeader on the selected option.
SignHeader ==
  /\ signer.pc = "selected"
  /\ \E now \in Nows :
       LET req == Accepts(signer.header)[signer.selected]
           made == createBlockRunPaymentHeader(signer.wallet, req, now, createNonce(0))
       IN signer' = [signer EXCEPT !.pc = IF made.ok THEN "signed" ELSE "threw",
                                   !.now = now, !.made = made]
  /\ UNCHANGED <<callVars, agent, norm, others>>

NextSigner == SelectOption \/ SignHeader

SpecSigner == InitSigner /\ [][NextSigner]_vars

\* ------------------------------------------- one network wait on its own

\* The deadlines fetchWithTimeout is called with (120000 is the default and
\* the one callBlockRunResponses passes).
Timeouts == {80000, 120000}

\* clearTimeout that does nothing.
ClearTimeout_Skip(timer) == timer

\* clearTimeout(timeoutId): an armed timer is disarmed, a timer that has
\* fired stays fired.
ClearTimeout(timer) == IF timer = "armed" THEN "cleared" ELSE timer

\* What fetch can reject with besides the abort.
TransportErrors == { <<"Connection", "reset", "by", "peer">>, <<"dns", "error">> }

\* The server either finishes the body of its response or never does.
InitWait ==
  /\ CallInit({TRUE}, {3})
  /\ signer = Off
  /\ agent = Off
  /\ norm = Off
  /\ pair = Off
  /\ clob = Off
  /\ bot = Off
  /\ events = Off /\ journal = Off
  /\ wait \in { [pc |-> "call", timeoutMs |-> t, clock |-> 0, timer |-> "none",
                  fetches |-> 0, aborted |-> FALSE, firedLate |-> FALSE,
                  stalls |-> s, status |-> 0, failure |-> <<>>, error |-> <<>>] :
                  t \in Timeouts, s \in BOOLEAN }

OnlyWait ==
  UNCHANGED <<callVars, signer, agent, norm, pair, clob, bot, events, journal>>

\* fetchWithTimeout up to its await: the controller is made, the timer is
\* armed and fetch is called.
CallFetch ==
  /\ wait.pc = "call"
  /\ wait' = [wait EXCEPT !.pc = "fetching", !.timer = "armed", !.fetches = @ + 1]
  /\ OnlyWait

\* Time passes; an armed timer whose time has come fires before more passes.
Tick ==
  /\ wait.pc # "call"
  /\ ~(wait.timer = "armed" /\ wait.clock >= wait.timeoutMs)
  /\ wait.clock + 40000 <= WaitHorizon
  /\ wait' = [wait EXCEPT !.clock = @ + 40000]
  /\ OnlyWait

\* fetch resolves: clearTimeout, return response.
TransportResponds ==
  /\ wait.pc = "fetching"
  /\ \E status \in {200, 402, 503} :
       wait' = [wait EXCEPT !.pc = "returned", !.status = status,
                            !.timer = ClearTimeout(@)]
  /\ OnlyWait

\* fetch rejects with an error of the transport: clearTimeout, throw error.
TransportFails ==
  /\ wait.pc = "fetching"
  /\ \E err \in TransportErrors :
       wait' = [wait EXCEPT !.pc = "threw", !.failure = err, !.error = err,
                            !.timer = ClearTimeout(@)]
  /\ OnlyWait

\* The timer fires: controller.abort().  A fetch still in flight rejects
\* with an AbortError, which the catch block turns into the timeout error; a
\* body still being read is cut off; after that the abort finds nothing.
TimerFires ==
  /\ wait.timer = "armed"
  /\ wait.clock >= wait.timeoutMs
  /\ wait' =
       IF wait.pc = "fetching"
       THEN [wait EXCEPT !.pc = "threw", !.timer = ClearTimeout("fired"),
                         !.aborted = TRUE,
                         !.error = FetchWithTimeout(
                                     Rejects("abort", <<"The", "signal", "has", "been",
                                                        "aborted">>),
                                     wait.timeoutMs).err]
       ELSE [wait EXCEPT !.timer = "fired", !.firedLate = TRUE,
                         !.pc = IF @ = "reading" THEN "readFailed" ELSE @]
  /\ OnlyWait

\* The caller reads the body: await response.json() or response.text().
ReadBody ==
  /\ wait.pc = "returned"
  /\ wait' = [wait EXCEPT !.pc = "reading"]
  /\ OnlyWait

\* The body has arrived in full.
BodyArrives ==
  /\ wait.pc = "reading"
  /\ ~wait.stalls
  /\ wait' = [wait EXCEPT !.pc = "read"]
  /\ OnlyWait

\* The connection breaks while the body is read.
BodyBreaks ==
  /\ wait.pc = "reading"
  /\ ~wait.stalls
  /\ \E err \in TransportErrors :
       wait' = [wait EXCEPT !.pc = "readFailed", !.failure = err, !.error = err]
  /\ OnlyWait

NextWait ==
  \/ CallFetch
  \/ Tick
  \/ TransportResponds
  \/ TransportFails
  \/ TimerFires
  \/ ReadBody
  \/ BodyArrives
  \/ BodyBreaks

SpecWait == InitWait /\ [][NextWait]_vars

\* SpecWait with the event loop running: a step that can be taken is taken.
SpecWaitLive == SpecWait /\ WF_vars(NextWait)

\* ---------------------------------------------------------------- claims

\* What the last step handled, read off the upstream outcome alone.
SawResponse == lastIn.phase \in {"initial", "paid"} /\ lastIn.out.kind = "response"

SawOkResponse == SawResponse /\ lastIn.out.status \in 200..299

SawClientError ==
  /\ SawResponse
  /\ lastIn.out.status \in 400..499
  /\ lastIn.out.status # 429
  /\ lastIn.phase = "initial" => lastIn.out.status # 402

SawRetryStatus ==
  SawResponse /\ (lastIn.out.status >= 500 \/ lastIn.out.status = 429)

SawChallenge == lastIn.phase = "initial" /\ lastIn.out.kind = "response"
                  /\ lastIn.out.status = 402

HasBaseNetwork(header) ==
  LET opts == IF header.hasAccepts THEN header.accepts ELSE <<header.self>>
  IN \E i \in 1..Len(opts) : opts[i].network \in {"eip155:8453", "base"}

SawNoBaseChallenge ==
  SawChallenge /\ lastIn.out.header.present /\ lastIn.out.header.decodes
    /\ ~HasBaseNetwork(lastIn.out.header)

SawHeaderlessChallenge == SawChallenge /\ ~lastIn.out.header.present

SawSigningFailure == lastIn.phase = "sign" /\ lastIn.out.kind # "signed"

\* The call failed in the attempt of the last outcome, with the error of that
\* attempt: no later request was sent and no backoff followed it.
FailedThere ==
  /\ pc = "failed"
  /\ thrown = lastError
  /\ thrown.att = lastIn.att
  /\ attempt = lastIn.att
  /\ nUnauth = lastIn.att + 1
  /\ Len(sleeps) = lastIn.att

(***************************************************************************)
(* Two concurrent callBlockRunResponses calls.  Every piece of state of a   *)
(* call is a local of its invocation (attempt, lastError, paymentCost at    *)
(* lines 303-307, controller and timeoutId at lines 120-121), so each call  *)
(* is one record and an action moves one call by one step.                 *)
(***************************************************************************)
PairMaxRetries == 1

Callers == {1, 2}

\* What the upstream does with one request of a call: answer with a status
\* (a 402 carries the amount of its Base option), or stay silent for good.
Up(status, amount) == [kind |-> "response", status |-> status, amount |-> amount]

Silent == [kind |-> "silent", status |-> 0, amount |-> NoAmount]

PairInitial == { Up(200, NoAmount), Up(402, Amount(2500000)), Up(400, NoAmount),
                 Up(503, NoAmount) }

PairPaid == { Up(200, NoAmount), Up(503, NoAmount) }

NoCallOutcome == [kind |-> "none", cost |-> NoCost, error |-> NoError]

\* The locals of one invocation before its loop starts.
FreshCall(retries) ==
  [pc |-> "idle", maxRetries |-> retries, attempt |-> 0, lastError |-> NoError,
   paymentCost |-> NoCost, timer |-> "none", outcome |-> NoCallOutcome,
   requests |-> <<>>, seen |-> <<>>, abortedBy |-> 0]

\* fetchWithTimeout up to its await: a controller, an armed timer, one fetch.
SendRequest(c, phase) ==
  [c EXCEPT !.pc = phase, !.timer = "armed",
            !.requests = Append(@, <<phase, c.attempt>>)]

CallThrows(c, error) ==
  [c EXCEPT !.pc = "threw",
            !.outcome = [kind |-> "threw", cost |-> NoCost, error |-> error]]

CallReturns(c) ==
  [c EXCEPT !.pc = "returned",
            !.outcome = [kind |-> "returned", cost |-> c.paymentCost, error |-> NoError]]

\* The catch block of the loop.
CallCatch(c, error) ==
  LET d == [c EXCEPT !.lastError = error]
  IN IF ~isRetryableError(error) /\ c.attempt = 0 THEN CallThrows(d, error)
     ELSE IF c.attempt >= c.maxRetries THEN CallThrows(d, error)
     ELSE [d EXCEPT !.pc = "sleep"]

\* A retryable status: remembered, slept on while attempts remain.
CallRetries(c, error) ==
  LET d == [c EXCEPT !.lastError = error]
  IN IF c.attempt < c.maxRetries THEN [d EXCEPT !.pc = "sleep"]
     ELSE CallThrows(d, error)

ClientError(status) == status >= 400 /\ status < 500 /\ status # 429

CallError(c, prefix, out) ==
  MkError(prefix \o <<ToString(out.status)>> \o StatusText(out.status) \o <<"-">>,
          c.attempt)

\* The code after an awaited fetch has resolved with a response.
OnResponse(c, out) ==
  LET d == [c EXCEPT !.timer = ClearTimeout(@)]
  IN IF c.pc = "initial"
     THEN IF out.status # 402
          THEN IF Ok(out) THEN CallReturns(d)
               ELSE LET error == CallError(c, <<"BlockRun", "API", "error:">>, out)
                    IN IF ClientError(out.status) THEN CallCatch(d, error)
                       ELSE CallRetries(d, error)
          ELSE SendRequest([d EXCEPT !.paymentCost = formatUsdcCost(out.amount)], "paid")
     ELSE IF ~Ok(out)
          THEN LET error == CallError(c, <<"BlockRun", "payment", "failed:">>, out)
               IN IF ClientError(out.status) THEN CallCatch(d, error)
                  ELSE CallRetries(d, error)
          ELSE CallReturns(d)

\* The awaited fetch rejected because the controller aborted it.
OnAbort(c) ==
  CallCatch(c, MkError(FetchWithTimeout(Rejects("abort", <<>>), 120000).err, c.attempt))

\* The end of the backoff sleep: attempt++ and the first request of the
\* next iteration (a sleep is only started while attempts remain).
AfterSleep(c) == SendRequest([c EXCEPT !.attempt = @ + 1], "initial")

InFlight(c) == c.pc \in {"initial", "paid"}

Finished(c) == c.pc \in {"returned", "threw"}

\* The controller that a call's timer callback aborts, by one shared
\* module-level controller.
ControllerOf_Module(i) == 1

\* The controller that a call's timer callback aborts: the one created by
\* the same fetchWithTimeout invocation.
ControllerOf(i) == i

\* The same call run alone against the upstream behaviour `seen`.
RECURSIVE RunAlone(_, _)
RunAlone(c, seen) ==
  IF Finished(c) THEN c
  ELSE IF c.pc = "idle" THEN RunAlone(SendRequest(c, "initial"), seen)
  ELSE IF c.pc = "sleep" THEN RunAlone(AfterSleep(c), seen)
  ELSE IF seen = <<>> THEN c
  ELSE IF Head(seen).kind = "silent"
       THEN RunAlone(OnAbort([c EXCEPT !.timer = "fired"]), Tail(seen))
       ELSE RunAlone(OnResponse(c, Head(seen)), Tail(seen))

InitPair ==
  /\ CallInit({TRUE}, {3})
  /\ signer = Off /\ agent = Off /\ norm = Off
  /\ wait = Off /\ clob = Off /\ bot = Off /\ events = Off /\ journal = Off
  /\ pair \in { [pc |-> "on", calls |-> [i \in Callers |-> FreshCall(r[i])]] :
                 r \in [Callers -> 0..PairMaxRetries] }

OnlyPair ==
  UNCHANGED <<callVars, signer, agent, norm, wait, clob, bot, events, journal>>

\* A call is made: its loop starts and sends the first request.
PairCall(i) ==
  /\ pair.pc = "on"
  /\ pair.calls[i].pc = "idle"
  /\ pair' = [pair EXCEPT !.calls[i] = SendRequest(@, "initial")]
  /\ OnlyPair

\* The upstream answers the request in flight of call i.
PairResponds(i) ==
  /\ pair.pc = "on"
  /\ InFlight(pair.calls[i])
  /\ pair.calls[i].timer = "armed"
  /\ \E out \in (IF pair.calls[i].pc = "initial" THEN PairInitial ELSE PairPaid) :
       pair' = [pair EXCEPT !.calls[i] =
                  OnResponse([@ EXCEPT !.seen = Append(@, out)], out)]
  /\ OnlyPair

\* The upstream stays silent and the timer of call i fires: its callback
\* aborts its controller, and the fetch on that controller rejects.
PairTimeout(i) ==
  /\ pair.pc = "on"
  /\ InFlight(pair.calls[i])
  /\ pair.calls[i].timer = "armed"
  /\ LET j == ControllerOf(i)
         fired == [pair.calls EXCEPT ![i] = [@ EXCEPT !.timer = "fired",
                                                      !.seen = Append(@, Silent)]]
     IN pair' = [pair EXCEPT !.calls =
                   IF InFlight(fired[j])
                   THEN [fired EXCEPT ![j] = OnAbort([@ EXCEPT !.abortedBy = i])]
                   ELSE fired]
  /\ OnlyPair

\* The backoff sleep of call i elapses.
PairBackoffElapsed(i) ==
  /\ pair.pc = "on"
  /\ pair.calls[i].pc = "sleep"
  /\ pair' = [pair EXCEPT !.calls[i] = AfterSleep(@)]
  /\ OnlyPair

NextPair ==
  \E i \in Callers :
    \/ PairCall(i)
    \/ PairResponds(i)
    \/ PairTimeout(i)
    \/ PairBackoffElapsed(i)

SpecPair == InitPair /\ [][NextPair]_vars

(***************************************************************************)
(* PolymarketClient: concurrent placeOrder calls on one client object.  The *)
(* object holds config and clobClient; initClobClient tests clobClient,     *)
(* awaits createOrDeriveApiKey and only then assigns clobClient.            *)
(***************************************************************************)
OrderCallers == {1, 2, 3}

\* this.clobClient = null
NoClient == 0

Configs == [privateKey : BOOLEAN, proxyAddress : BOOLEAN]

NoOrderResponse == [success |-> FALSE, errorMsg |-> <<>>]

IdleCaller == [pc |-> "idle", client |-> NoClient, response |-> NoOrderResponse]

InitClob ==
  /\ CallInit({TRUE}, {3})
  /\ signer = Off /\ agent = Off /\ norm = Off
  /\ wait = Off /\ pair = Off /\ bot = Off /\ events = Off /\ journal = Off
  /\ clob \in { [pc |-> "on", config |-> cfg, clobClient |-> NoClient, derives |-> 0,
                  constructed |-> 0, posted |-> 0,
                  callers |-> [i \in OrderCallers |-> IdleCaller]] : cfg \in Configs }

OnlyClob ==
  UNCHANGED <<callVars, signer, agent, norm, wait, pair, bot, events, journal>>

\* placeOrder letting the failure out instead of returning it.
Fails_Rethrown(c, msg) == [c EXCEPT !.pc = "threw"]

\* placeOrder returning { success: false, errorMsg }: the two config checks
\* and the catch around initClobClient and createAndPostOrder.
Fails(c, msg) ==
  [c EXCEPT !.pc = "done", !.response = [success |-> FALSE, errorMsg |-> msg]]

\* placeOrder up to its first await: the two config checks, then
\* initClobClient up to its await (the cached client, or a derive call).
PlaceOrder(i) ==
  /\ clob.pc = "on"
  /\ clob.callers[i].pc = "idle"
  /\ IF ~clob.config.privateKey
     THEN clob' = [clob EXCEPT !.callers[i] = Fails(@, <<"Missing", "private", "key.">>)]
     ELSE IF ~clob.config.proxyAddress
     THEN clob' = [clob EXCEPT !.callers[i] = Fails(@, <<"Missing", "proxy", "address.">>)]
     ELSE IF clob.clobClient # NoClient
     THEN clob' = [clob EXCEPT !.callers[i] = [@ EXCEPT !.pc = "posting",
                                                        !.client = clob.clobClient]]
     ELSE clob' = [clob EXCEPT !.derives = @ + 1,
                               !.callers[i] = [@ EXCEPT !.pc = "deriving"]]
  /\ OnlyClob

\* initClobClient caching the client before the credentials are derived, so
\* that a failed initialization leaves a client in the cache.
DeriveSettles_CachesEarly(i) ==
  /\ clob.pc = "on"
  /\ clob.callers[i].pc = "deriving"
  /\ \/ clob' = [clob EXCEPT !.constructed = @ + 1,
                              !.clobClient = clob.constructed + 1,
                              !.callers[i] = [@ EXCEPT !.pc = "posting",
                                                       !.client = clob.constructed + 1]]
     \/ clob' = [clob EXCEPT !.clobClient = clob.constructed + 1,
                              !.callers[i] = Fails(@, <<"derive", "failed">>)]
  /\ OnlyClob

\* createOrDeriveApiKey settles: with credentials the credentialed client is
\* constructed and assigned, and createAndPostOrder is called on it; a
\* rejection is rethrown by initClobClient and caught by placeOrder.
DeriveSettles(i) ==
  /\ clob.pc = "on"
  /\ clob.callers[i].pc = "deriving"
  /\ \/ clob' = [clob EXCEPT !.constructed = @ + 1,
                              !.clobClient = clob.constructed + 1,
                              !.callers[i] = [@ EXCEPT !.pc = "posting",
                                                       !.client = clob.constructed + 1]]
     \/ clob' = [clob EXCEPT !.callers[i] = Fails(@, <<"derive", "failed">>)]
  /\ OnlyClob

\* createAndPostOrder settles.
PostSettles(i) ==
  /\ clob.pc = "on"
  /\ clob.callers[i].pc = "posting"
  /\ \/ clob' = [clob EXCEPT !.posted = @ + 1,
                              !.callers[i] = [@ EXCEPT !.pc = "done",
                                   !.response = [success |-> TRUE, errorMsg |-> <<>>]]]
     \/ clob' = [clob EXCEPT !.callers[i] = Fails(@, <<"order", "rejected">>)]
  /\ OnlyClob

NextClob ==
  \E i \in OrderCallers :
    \/ PlaceOrder(i)
    \/ DeriveSettles(i)
    \/ PostSettles(i)

SpecClob == InitClob /\ [][NextClob]_vars

\* Calls that do not overlap: placeOrder is called only when every earlier
\* call has returned, as in `await placeOrder(a); await placeOrder(b)`.
NoCallRunning == \A j \in OrderCallers : clob.callers[j].pc \in {"idle", "done"}

NextClobInTurn ==
  \E i \in OrderCallers :
    \/ NoCallRunning /\ PlaceOrder(i)
    \/ DeriveSettles(i)
    \/ PostSettles(i)

SpecClobInTurn == InitClob /\ [][NextClobInTurn]_vars

(***************************************************************************)
(* polymarket-up-down-15-markets-limit-order-bot and the PolymarketClient   *)
(* operations it calls.  Prices are kept in hundredths (48 is 0.48), sizes  *)
(* in whole dollars, and the division of placeStraddleOrders is exact.      *)
(***************************************************************************)
\* String.prototype.toUpperCase on the asset names the requests use.
UpperCase(s) ==
  CASE s = "btc" -> "BTC"
    [] s = "Sol" -> "SOL"
    [] s = "doge" -> "DOGE"
    [] s = "kxbtc-25dec" -> "KXBTC-25DEC"
    [] s = "tid=1" -> "TID=1"
    [] OTHER -> s

SupportedAssets == {"BTC", "SOL", "ETH", "XRP"}

isValidAsset(asset) == UpperCase(asset) \in SupportedAssets

ASSET_SLUG_PREFIXES(asset) ==
  CASE asset = "BTC" -> "btc-updown-15m-"
    [] asset = "SOL" -> "sol-updown-15m-"
    [] asset = "ETH" -> "eth-updown-15m-"
    [] asset = "XRP" -> "xrp-updown-15m-"

buildMarketSlug(asset, timestamp) == <<ASSET_SLUG_PREFIXES(asset), timestamp>>

\* Math.ceil(n / d) for a positive d.
Ceil(n, d) == IF n % d = 0 THEN n \div d ELSE n \div d + 1

\* The start of the block after the current one, also on a boundary.
getNext15MinTimestamp_NextBlock(now) == (now \div 900) * 900 + 900

getNext15MinTimestamp(now) == Ceil(now, 900) * 900

\* Math.floor(a / b) for integers a and b, b not zero.
FloorDiv(a, b) == IF b > 0 THEN a \div b ELSE (0 - a) \div (0 - b)

\* price ? price / 100 : DEFAULT_ORDER_PRICE, in hundredths.
OrderPrice(price) == IF price.set /\ price.val # 0 THEN price.val ELSE 48

\* sizeUsd || DEFAULT_ORDER_SIZE_USD
OrderSizeUsd(sizeUsd) == IF sizeUsd.set /\ sizeUsd.val # 0 THEN sizeUsd.val ELSE 25

\* The order placeOrder hands to createAndPostOrder for a straddle leg:
\* size = sizeUsd / price, then Math.floor(order.size).
StraddleOrder(tokenId, price, sizeUsd) ==
  [tokenID |-> tokenId, price |-> price, size |-> FloorDiv(sizeUsd * 100, price),
   side |-> "BUY"]

\* What the request's price and sizeUsd fields can hold.
PricePercents == { NoNumber, Number(0), Number(48), Number(100), Number(150), Number(-5) }

SizesUsd == { NoNumber, Number(0), Number(10), Number(-10) }

\* The clobTokenIds field of a market: absent, or a string that is not JSON,
\* JSON null, a JSON object, or a JSON array of one string, of two numbers,
\* of two strings, of three strings.
TokenFields == {"absent", "notJson", "null", "object", "one", "numbers", "two", "three"}

NoTokenIds == [threw |-> TRUE, up |-> "", down |-> ""]

\* extractTokenIds accepting a list of one id.
extractTokenIds_Lenient(market) ==
  IF market.clobTokenIds \in {"one", "two", "three"}
  THEN [threw |-> FALSE, up |-> "U", down |-> "D"]
  ELSE NoTokenIds

\* extractTokenIds with parseTokenIds: a throw, or the first two ids.
extractTokenIds(market) ==
  IF market.clobTokenIds \in {"two", "three"}
  THEN [threw |-> FALSE, up |-> "U", down |-> "D"]
  ELSE NoTokenIds

NoMarket == [title |-> "", clobTokenIds |-> "absent"]

Markets == { [title |-> "BTC Up or Down", clobTokenIds |-> t] : t \in TokenFields }

\* What the Gamma API fetch can do: reject, or resolve with a status and a
\* body that is a market object, JSON null, or not JSON.
GammaRejects(msg) ==
  [kind |-> "reject", status |-> 0, body |-> "none", market |-> NoMarket, err |-> msg]

GammaResponse(status, body, market) ==
  [kind |-> "response", status |-> status, body |-> body, market |-> market, err |-> <<>>]

GammaOutcomes ==
  { GammaRejects(<<"error", "sending", "request">>) }
    \cup { GammaResponse(200, "market", m) : m \in Markets }
    \cup { GammaResponse(201, "market", m) : m \in {[title |-> "", clobTokenIds |-> "two"]} }
    \cup { GammaResponse(s, b, NoMarket) : s \in {200, 404, 429, 500}, b \in {"null", "notJson"} }

Returned(kind, market) == [kind |-> kind, market |-> market, err |-> <<>>]

Threw(msg) == [kind |-> "threw", market |-> NoMarket, err |-> msg]

\* getMarketBySlug answering null for every response that is not ok.
getMarketBySlug_NullOnError(out) ==
  IF out.kind # "response" THEN Threw(out.err)
  ELSE IF ~Ok(out) THEN Returned("null", NoMarket)
  ELSE IF out.body = "notJson" THEN Threw(<<"Unexpected", "token">>)
  ELSE IF out.body = "null" THEN Threw(<<"Cannot", "read", "properties", "of", "null">>)
  ELSE Returned("market", out.market)

getMarketBySlug(out) ==
  IF out.kind # "response" THEN Threw(out.err)
  ELSE IF ~Ok(out)
       THEN IF out.status = 404 THEN Returned("null", NoMarket)
            ELSE Threw(<<"Gamma", "API", "error:", ToString(out.status)>>)
  ELSE IF out.body = "notJson" THEN Threw(<<"Unexpected", "token">>)
  ELSE IF out.body = "null" THEN Threw(<<"Cannot", "read", "properties", "of", "null">>)
  ELSE Returned("market", out.market)

\* The asset field of a request body: absent, a string, or a number.
NoAsset == [kind |-> "absent", val |-> ""]

AssetString(s) == [kind |-> "string", val |-> s]

AssetNumber == [kind |-> "number", val |-> ""]

Assets == { NoAsset, AssetNumber } \cup { AssetString(s) : s \in {"", "btc", "BTC", "Sol", "doge"} }

NoBody(kind) == [kind |-> kind, asset |-> NoAsset, price |-> NoNumber, sizeUsd |-> NoNumber]

BotBodies ==
  { NoBody("notJson"), NoBody("null") }
    \cup { [kind |-> "object", asset |-> a, price |-> p, sizeUsd |-> s] :
             a \in Assets, p \in PricePercents, s \in SizesUsd }

BotRequests ==
  { [method |-> m, body |-> NoBody("notJson")] : m \in {"OPTIONS", "GET"} }
    \cup { [method |-> "POST", body |-> b] : b \in BotBodies }

\* POLYMARKET_WALLET_PRIVATE_KEY and POLYMARKET_PROXY_WALLET_ADDRESS set or not.
Environments ==
  { [privateKey |-> TRUE, proxyAddress |-> TRUE], [privateKey |-> FALSE, proxyAddress |-> TRUE],
    [privateKey |-> TRUE, proxyAddress |-> FALSE] }

\* Date.now() / 1000, floored: on a 15-minute boundary, just after one, in
\* the middle of a block, and just before the next boundary.
BotNows == { 1700000100, 1700000101, 1700000550, 1700000999 }

NoBotResponse == [status |-> 0, success |-> "none", error |-> <<>>]

BotResponse(status, success, error) == [status |-> status, success |-> success, error |-> error]

NoOrders == [up |-> "none", down |-> "none"]

InitBot ==
  /\ CallInit({TRUE}, {3})
  /\ signer = Off /\ agent = Off /\ norm = Off
  /\ wait = Off /\ pair = Off /\ clob = Off /\ events = Off /\ journal = Off
  /\ bot \in { [pc |-> "received", req |-> r, env |-> e, now |-> n, timestamp |-> 0,
                 slug |-> <<>>, orderPrice |-> 0, orderSizeUsd |-> 0,
                 fetched |-> GammaRejects(<<>>), market |-> Returned("none", NoMarket),
                 tokenIds |-> NoTokenIds, straddles |-> 0, leg |-> "none",
                 clobClient |-> FALSE, orders |-> <<>>, ordersPlaced |-> NoOrders,
                 response |-> NoBotResponse] :
                 r \in BotRequests, e \in Environments, n \in BotNows }

OnlyBot ==
  UNCHANGED <<callVars, signer, agent, norm, wait, pair, clob, events, journal>>

Replies(b, status, success, error) ==
  [b EXCEPT !.pc = "done", !.response = BotResponse(status, success, error)]

\* placeOrder for one leg up to its first await: the cached trading client
\* gets the order, or createOrDeriveApiKey is called first.
BeginLeg(b, leg) ==
  IF b.clobClient
  THEN [b EXCEPT !.leg = leg, !.pc = "posting",
                 !.orders = Append(@, StraddleOrder(b.tokenIds[leg], b.orderPrice,
                                                    b.orderSizeUsd))]
  ELSE [b EXCEPT !.leg = leg, !.pc = "deriving"]

\* The handler answering success only when the leg's order was placed.
EndLeg_OrderDecides(b, placed) ==
  LET c == [b EXCEPT !.ordersPlaced[b.leg] = placed]
  IN IF b.leg = "up" THEN BeginLeg(c, "down")
     ELSE Replies(c, 200, placed = "ok", <<>>)

\* placeStraddleOrders giving up the Down order when the Up order failed.
EndLeg_StopsAfterFailedUp(b, placed) ==
  LET c == [b EXCEPT !.ordersPlaced[b.leg] = placed]
  IN IF b.leg = "up" /\ placed = "ok" THEN BeginLeg(c, "down")
     ELSE Replies(c, 200, TRUE, <<>>)

\* placeOrder has returned for the leg: the Down order follows the Up order,
\* and after both the handler answers with success: !marketResult.error.
EndLeg(b, placed) ==
  LET c == [b EXCEPT !.ordersPlaced[b.leg] = placed]
  IN IF b.leg = "up" THEN BeginLeg(c, "down")
     ELSE Replies(c, 200, TRUE, <<>>)

\* The handler from the request to its first await.
Serve ==
  /\ bot.pc = "received"
  /\ LET body == bot.req.body
         asset == UpperCase(body.asset.val)
         timestamp == getNext15MinTimestamp(bot.now)
     IN bot' =
          IF bot.req.method = "OPTIONS" THEN Replies(bot, 200, "none", <<>>)
          ELSE IF bot.req.method # "POST"
          THEN Replies(bot, 405, FALSE, <<"Method", "not", "allowed.", "Use", "POST.">>)
          ELSE IF body.kind = "notJson"
          THEN Replies(bot, 400, FALSE, <<"Invalid", "JSON", "in", "request", "body">>)
          ELSE IF body.kind = "null"
          THEN Replies(bot, 500, FALSE, <<"Cannot", "destructure", "property">>)
          ELSE IF body.asset.kind = "absent" \/ body.asset = AssetString("")
          THEN Replies(bot, 400, FALSE, <<"Invalid", "asset.">>)
          ELSE IF body.asset.kind = "number"
          THEN Replies(bot, 500, FALSE, <<"asset.toUpperCase", "is", "not", "a", "function">>)
          ELSE IF ~isValidAsset(body.asset.val)
          THEN Replies(bot, 400, FALSE, <<"Invalid", "asset.">>)
          ELSE LET b == [bot EXCEPT !.orderPrice = OrderPrice(body.price),
                                    !.orderSizeUsd = OrderSizeUsd(body.sizeUsd),
                                    !.timestamp = timestamp,
                                    !.slug = buildMarketSlug(asset, timestamp)]
               IN IF ~bot.env.privateKey \/ ~bot.env.proxyAddress
                  THEN Replies(b, 500, FALSE, <<"Client", "initialization", "failed:">>)
                  ELSE [b EXCEPT !.pc = "fetching"]
  /\ OnlyBot

\* The Gamma API fetch of getMarketBySlug settles; the handler goes on to
\* extractTokenIds and into placeStraddleOrders up to its first await.
MarketSettles ==
  /\ bot.pc = "fetching"
  /\ \E out \in GammaOutcomes :
       LET market == getMarketBySlug(out)
           b == [bot EXCEPT !.fetched = out, !.market = market]
           tokenIds == extractTokenIds(market.market)
       IN bot' =
            IF market.kind = "threw" THEN Replies(b, 200, market.err = <<>>, market.err)
            ELSE IF market.kind = "null"
            THEN Replies(b, 200, FALSE, <<"Market", "not", "found">>)
            ELSE IF tokenIds.threw
            THEN Replies(b, 200, FALSE, <<"Token", "extraction", "failed:">>)
            ELSE BeginLeg([b EXCEPT !.tokenIds = tokenIds, !.straddles = @ + 1], "up")
  /\ OnlyBot

\* createOrDeriveApiKey settles: with credentials the trading client is set
\* and gets the order; a rejection makes placeOrder return success: false.
ApiKeySettles ==
  /\ bot.pc = "deriving"
  /\ \/ bot' = BeginLeg([bot EXCEPT !.clobClient = TRUE], bot.leg)
     \/ bot' = EndLeg(bot, "failed")
  /\ OnlyBot

\* createAndPostOrder settles.
OrderSettles ==
  /\ bot.pc = "posting"
  /\ \E placed \in {"ok", "failed"} : bot' = EndLeg(bot, placed)
  /\ OnlyBot

NextBot ==
  \/ Serve
  \/ MarketSettles
  \/ ApiKeySettles
  \/ OrderSettles

SpecBot == InitBot /\ [][NextBot]_vars

(***************************************************************************)
(* get-events.  A URL is the list of its parts between slashes, with the    *)
(* text after a question mark in the last part kept apart as the query.    *)
(***************************************************************************)
Url(parts, query) == [kind |-> "string", parts |-> parts, query |-> query]

NoUrl == [kind |-> "absent", parts |-> <<>>, query |-> ""]

EmptyUrl == [kind |-> "string", parts |-> <<"">>, query |-> ""]

NumberUrl == [kind |-> "number", parts |-> <<>>, query |-> ""]

Urls ==
  { NoUrl, EmptyUrl, NumberUrl,
    Url(<<"https:", "", "kalshi.com", "markets", "kxbtc-25dec">>, ""),
    Url(<<"https:", "", "Kalshi.com", "markets", "">>, ""),
    Url(<<"https:", "", "kalshi.com", "markets", "">>, "tid=1"),
    Url(<<"https:", "", "polymarket.com", "event", "btc-up">>, "tid=1"),
    Url(<<"https:", "", "Polymarket.com", "event", "">>, "tid=1"),
    Url(<<"https:", "", "example.com", "kalshi-vs-polymarket">>, ""),
    Url(<<"https:", "", "example.com", "markets", "btc-up">>, "") }

\* Whether url.toLowerCase() includes the name of a market.
Mentions(url, name) ==
  \E k \in 1..Len(url.parts) :
    CASE name = "kalshi" -> url.parts[k] \in {"kalshi.com", "Kalshi.com", "kalshi-vs-polymarket"}
      [] name = "polymarket" ->
           url.parts[k] \in {"polymarket.com", "Polymarket.com", "kalshi-vs-polymarket"}

detectPmType(url) ==
  IF Mentions(url, "kalshi") THEN "Kalshi"
  ELSE IF Mentions(url, "polymarket") THEN "Polymarket"
  ELSE "null"

LastPart(url) == url.parts[Len(url.parts)]

\* urlParts[urlParts.length - 1]?.toUpperCase(): the last part with its
\* query, in upper case; <<>> stands for the empty string.
KalshiEventTicker(url) ==
  IF LastPart(url) = "" /\ url.query = "" THEN <<>>
  ELSE IF url.query = "" THEN <<UpperCase(LastPart(url))>>
  ELSE <<UpperCase(LastPart(url)), "?", UpperCase(url.query)>>

\* The last part of the URL without its query, or null (<<>>).
extractPolymarketEventSlug(url) ==
  IF LastPart(url) = "" THEN <<>> ELSE <<LastPart(url)>>

\* The not-found test of the two catch blocks, without the lower-casing.
IsNotFound_CaseSensitive(errorMessage) ==
  Includes(errorMessage, <<"404">>) \/ Includes(errorMessage, <<"not", "found">>)

IsNotFound(errorMessage) ==
  Includes(errorMessage, <<"404">>) \/ Includes(ToLowerCase(errorMessage), <<"not", "found">>)

\* What a market-data call can do: resolve with a market list (here the
\* number of its markets), or reject with an Error or with another value.
Resolves(n) == [kind |-> "resolve", markets |-> n, msg |-> <<>>]

RejectsWith(kind, msg) == [kind |-> kind, markets |-> 0, msg |-> msg]

ProviderOutcomes ==
  { Resolves(n) : n \in 0..2 }
    \cup { RejectsWith("error", m) :
             m \in { <<"Dome", "API", "error:", "404">>, <<"Event", "Not", "Found">>,
                     <<"market", "not", "found">>, <<"HTTP", "500">>,
                     <<"found", "not">>, <<"Request", "timeout">> } }
    \cup { RejectsWith("value", <<"404">>) }

NoProviderOutcome == RejectsWith("none", <<>>)

EventsBody(kind, url, dataProvider) == [kind |-> kind, url |-> url, dataProvider |-> dataProvider]

EventsRequests ==
  { [method |-> m, body |-> EventsBody("notJson", NoUrl, "absent")] : m \in {"OPTIONS", "GET"} }
    \cup { [method |-> "POST", body |-> EventsBody(k, NoUrl, "absent")] : k \in {"notJson", "null"} }
    \cup { [method |-> "POST", body |-> EventsBody("object", u, p)] :
             u \in Urls, p \in {"absent", "dome", "dflow", "other"} }

NoEventsResponse == [status |-> 0, success |-> "none", marketsCount |-> -1]

EventsResponse(status, success, marketsCount) ==
  [status |-> status, success |-> success, marketsCount |-> marketsCount]

InitEvents ==
  /\ CallInit({TRUE}, {3})
  /\ signer = Off /\ agent = Off /\ norm = Off
  /\ wait = Off /\ pair = Off /\ clob = Off /\ bot = Off /\ journal = Off
  /\ events \in { [pc |-> "received", req |-> r, pmType |-> "null", eventIdentifier |-> <<>>,
                    calls |-> <<>>, outcome |-> NoProviderOutcome,
                    response |-> NoEventsResponse] : r \in EventsRequests }

OnlyEvents ==
  UNCHANGED <<callVars, signer, agent, norm, wait, pair, clob, bot, journal>>

Answers(e, status, success, marketsCount) ==
  [e EXCEPT !.pc = "done", !.response = EventsResponse(status, success, marketsCount)]

\* The market-data call of the handler: DFlow only for dataProvider
\* 'dflow' on a Kalshi URL, Dome otherwise.
Calls(e, pmType, identifier) ==
  [e EXCEPT !.pc = "calling", !.pmType = pmType, !.eventIdentifier = identifier,
            !.calls = Append(@, IF pmType = "Kalshi" /\ e.req.body.dataProvider = "dflow"
                                THEN "getDFlowKalshiMarketsByEvent"
                                ELSE IF pmType = "Kalshi"
                                THEN "getDomeKalshiMarketsByEvent"
                                ELSE "getPolymarketMarkets")]

\* The handler from the request to the market-data call.
ServeEvents ==
  /\ events.pc = "received"
  /\ LET body == events.req.body
         url == body.url
         pmType == detectPmType(url)
     IN events' =
          IF events.req.method = "OPTIONS" THEN Answers(events, 200, "none", -1)
          ELSE IF events.req.method # "POST" THEN Answers(events, 405, FALSE, -1)
          ELSE IF body.kind = "notJson" THEN Answers(events, 400, FALSE, -1)
          ELSE IF body.kind = "null" THEN Answers(events, 500, FALSE, -1)
          ELSE IF url.kind = "absent" \/ url = EmptyUrl THEN Answers(events, 400, FALSE, -1)
          ELSE IF url.kind = "number" THEN Answers(events, 500, FALSE, -1)
          ELSE IF pmType = "null" THEN Answers(events, 400, FALSE, -1)
          ELSE IF pmType = "Kalshi"
          THEN IF KalshiEventTicker(url) = <<>>
               THEN Answers([events EXCEPT !.pmType = pmType], 400, FALSE, -1)
               ELSE Calls(events, pmType, KalshiEventTicker(url))
          ELSE IF extractPolymarketEventSlug(url) = <<>>
               THEN Answers([events EXCEPT !.pmType = pmType], 400, FALSE, -1)
               ELSE Calls(events, pmType, extractPolymarketEventSlug(url))
  /\ OnlyEvents

\* The market-data call settles.
ProviderSettles ==
  /\ events.pc = "calling"
  /\ \E out \in ProviderOutcomes :
       LET e == [events EXCEPT !.outcome = out]
           errorMessage == IF out.kind = "error" THEN out.msg ELSE <<"Unknown", "error">>
       IN events' =
            IF out.kind # "resolve"
            THEN Answers(e, IF IsNotFound(errorMessage) THEN 404 ELSE 502, FALSE, -1)
            ELSE IF out.markets = 0 THEN Answers(e, 404, FALSE, -1)
            ELSE Answers(e, 200, TRUE, out.markets)
  /\ OnlyEvents

NextEvents ==
  \/ ServeEvents
  \/ ProviderSettles

SpecEvents == InitEvents /\ [][NextEvents]_vars

(***************************************************************************)
(* The log of a PolymarketClient and the logs array of the limit-order bot. *)
(* Arrays are objects: `arrays` is the heap, an array is named by its index *)
(* in it, and this.logs and the value getLogs returned are such names.     *)
(* A client entry is the number of its recording, a handler entry is        *)
(* negative.                                                               *)
(***************************************************************************)
MaxLogSteps == 6

\* this.logs.push(createLogEntry(...)): the entry goes into the array that
\* this.logs names.
log(j) ==
  [j EXCEPT !.arrays[j.clientLogs] = Append(@, j.recorded + 1),
            !.recorded = @ + 1]

\* getLogs returning this.logs itself.
getLogs_SameArray(j) == [j EXCEPT !.held = j.clientLogs]

\* return [...this.logs]: a new array with the entries of this.logs.
getLogs(j) ==
  [j EXCEPT !.arrays = Append(@, j.arrays[j.clientLogs]),
            !.held = Len(j.arrays) + 1]

\* this.logs = []: this.logs names a new, empty array.
clearLogs(j) ==
  [j EXCEPT !.arrays = Append(@, <<>>),
            !.clientLogs = Len(j.arrays) + 1]

\* logs.push(...client.getLogs()); client.clearLogs();
flush(j) ==
  LET got == getLogs(j)
  IN clearLogs([got EXCEPT !.logs = @ \o got.arrays[got.held]])

\* What the caller of getLogs saw in the array it was given.
Seen(j, op) ==
  [j EXCEPT !.heldCopy = IF j.held = 0 THEN <<>> ELSE j.arrays[j.held],
            !.lastOp = op, !.steps = @ + 1]

InitLogs ==
  /\ CallInit({TRUE}, {3})
  /\ signer = Off /\ agent = Off /\ norm = Off
  /\ wait = Off /\ pair = Off /\ clob = Off /\ bot = Off /\ events = Off
  /\ journal = [pc |-> "on", arrays |-> << <<>> >>, clientLogs |-> 1, held |-> 0,
                heldCopy |-> <<>>, logs |-> <<>>, recorded |-> 0, pushed |-> 0,
                lastOp |-> "new", steps |-> 0]

OnlyLogs == UNCHANGED <<callVars, signer, agent, norm, wait, pair, clob, bot, events>>

Logging == journal.pc = "on" /\ journal.steps < MaxLogSteps

\* An operation of the client records an entry.
ClientLogs ==
  /\ Logging
  /\ journal' = [log(journal) EXCEPT !.lastOp = "log", !.steps = @ + 1]
  /\ OnlyLogs

\* The handler pushes an entry of its own onto logs.
HandlerLogs ==
  /\ Logging
  /\ journal' = [journal EXCEPT !.logs = Append(@, 0 - (journal.pushed + 1)),
                                !.pushed = @ + 1, !.lastOp = "push", !.steps = @ + 1]
  /\ OnlyLogs

\* A caller takes the logs and keeps what it was given.
GetLogs ==
  /\ Logging
  /\ journal' = Seen(getLogs(journal), "getLogs")
  /\ OnlyLogs

ClearLogs ==
  /\ Logging
  /\ journal' = [clearLogs(journal) EXCEPT !.lastOp = "clearLogs", !.steps = @ + 1]
  /\ OnlyLogs

\* The handler moves the client's entries into logs after a client call.
Flush ==
  /\ Logging
  /\ journal' = Seen(flush(journal), "flush")
  /\ OnlyLogs

NextLogs ==
  \/ ClientLogs
  \/ HandlerLogs
  \/ GetLogs
  \/ ClearLogs
  \/ Flush

SpecLogs == InitLogs /\ [][NextLogs]_vars

\* C1: a call performs at most maxRetries + 1 attempts, each one
\* unauthenticated request followed by at most one paid request, and after
\* the first ok response (or the failure of the call) no further HTTP
\* request is issued.
C1_AttemptsBoundedNoRequestAfterOk ==
  maxRetries >= 0 =>
    /\ nUnauth <= maxRetries + 1
    /\ paidInAttempt <= 1
    /\ Len(paidHdrs) <= nUnauth
    /\ SawOkResponse => (attempt = lastIn.att /\ pc \in {"done", "failed"})
    /\ pc = "failed" /\ walletKey => nUnauth = attempt + 1

\* C2: a 4xx status other than 429 (and other than 402 on the
\* unauthenticated request) makes the call fail with that error, with no
\* further request and no backoff, on every attempt and whatever the status
\* text or the body says.
C2_ClientErrorIsTerminal == SawClientError => FailedThere

\* C3: a 402 challenge with no option for eip155:8453 or base makes the call
\* fail without signing, without a paid request and without a retry, on
\* every attempt.
C3_NoBaseOptionIsTerminal ==
  SawNoBaseChallenge => (FailedThere /\ paidInAttempt = 0 /\ signsInAttempt = 0)

\* C4: a 402 without the payment-required header makes the call fail, with
\* no paid request for it and no retry, on every attempt.
C4_HeaderlessChallengeIsTerminal ==
  SawHeaderlessChallenge => (FailedThere /\ paidInAttempt = 0)

\* C5: when createBlockRunPaymentHeader throws, no paid request is sent in
\* that attempt and the call fails with no further attempt and no backoff,
\* on every attempt.
C5_SigningFailureIsTerminal ==
  SawSigningFailure => (FailedThere /\ paidInAttempt = 0)

\* C6: a paid request is sent only after, in the same attempt, the
\* unauthenticated request returned 402, a Base option was selected from its
\* challenge and signing succeeded; an attempt sends at most one paid request
\* and signs at most once, so a paid response of any status is never followed
\* by a signing or a second paid request in its attempt.
C6_PaidOnlyAfterHandshake ==
  /\ paidInAttempt <= 1
  /\ signsInAttempt <= 1
  /\ paidInAttempt = 1 =>
       /\ initialOut.kind = "response"
       /\ initialOut.status = 402
       /\ initialOut.header.present
       /\ initialOut.header.decodes
       /\ HasBaseNetwork(initialOut.header)
       /\ paymentRequirements.network \in {"eip155:8453", "base"}
       /\ signsInAttempt = 1
       /\ paymentHeader # 0
  /\ pc = "fetch2" =>
       /\ paidInAttempt = 1
       /\ lastIn.phase = "sign"
       /\ lastIn.att = attempt
       /\ lastIn.out.kind = "signed"
  /\ pc = "sign" => paidInAttempt = 0
  /\ lastIn.phase = "paid" /\ lastIn.att = attempt => pc \notin {"sign", "fetch2"}

\* A paid request was answered with a second 402.
C6_Witness ==
  /\ lastIn.phase = "paid"
  /\ lastIn.out.kind = "response"
  /\ lastIn.out.status = 402
  /\ paidInAttempt = 1

\* C7: every authorization that is signed is attached to exactly one
\* request, and no two paid requests carry the same authorization: a retry
\* after a failed paid request starts with a new unauthenticated request and
\* a new challenge, and signs a new authorization.
C7_OneAuthorizationOneRequest ==
  /\ Len(paidHdrs) = nonces
  /\ \A i, j \in 1..Len(paidHdrs) : i # j => paidHdrs[i] # paidHdrs[j]
  /\ Len(paidHdrs) <= nUnauth
  /\ pc = "fetch1" => (paymentHeader = 0 /\ paidInAttempt = 0)
  /\ pc = "fetch2" =>
       /\ paymentHeader = paidHdrs[Len(paidHdrs)]
       /\ initialOut.kind = "response"
       /\ initialOut.status = 402

\* A failed paid request was retried and the retry sent a second paid request.
C7_Witness == Len(paidHdrs) >= 2 /\ pc = "fetch2"

\* min(1000 * 2^i, 10000) for i = 0..5
BackoffTable == <<1000, 2000, 4000, 8000, 10000, 10000>>

\* C8: the k-th sleep of a call follows attempt k-1 and lasts
\* min(1000 * 2^(k-1), 10000) ms; there is exactly one sleep between two
\* attempts and none after the last attempt, so a call that ended after k
\* attempts slept k-1 times.
C8_BackoffSchedule ==
  /\ \A k \in 1..Len(sleeps) :
       /\ sleeps[k][1] = k - 1
       /\ sleeps[k][2] = IF k <= Len(BackoffTable) THEN BackoffTable[k] ELSE 10000
  /\ Len(sleeps) = IF pc = "sleep" THEN attempt + 1 ELSE attempt
  /\ pc \in {"done", "failed"} /\ nUnauth > 0 => Len(sleeps) = nUnauth - 1

\* A call failed after seven attempts; the sleep after attempt 5 was a capped one.
C8_Witness == pc = "failed" /\ nUnauth = 7 /\ sleeps[6] = <<5, 10000>>

\* The error built from a non-ok response.
ResponseErrorMsg(in) ==
  (IF in.phase = "initial" THEN <<"BlockRun", "API", "error:">>
   ELSE <<"BlockRun", "payment", "failed:">>)
    \o <<ToString(in.out.status)>> \o in.out.statusText \o <<"-">> \o in.out.body.text

\* C9: a response with status >= 500 or 429 on attempt i < maxRetries is
\* followed by a backoff and attempt i+1; on attempt maxRetries the call
\* fails with the error built from that response; a result is built from the
\* body of the attempt that returned ok.
C9_RetryStatusRetriedUntilBudgetEnds ==
  /\ SawRetryStatus /\ lastIn.att < maxRetries =>
       \/ pc = "sleep" /\ attempt = lastIn.att
       \/ pc = "fetch1" /\ attempt = lastIn.att + 1
  /\ SawRetryStatus /\ lastIn.att = maxRetries =>
       (FailedThere /\ thrown.msg = ResponseErrorMsg(lastIn))
  /\ pc = "done" =>
       /\ SawOkResponse
       /\ lastIn.att = attempt
       /\ result.att = attempt
       /\ result.value.output[1].content[1].text = lastIn.out.body.content

\* The last of three attempts was answered 503 or 429 on the paid request.
C9_Witness ==
  /\ SawRetryStatus
  /\ lastIn.phase = "paid"
  /\ maxRetries = 2
  /\ lastIn.att = 2
  /\ pc = "failed"

\* The message holds none of the words the classifier looks for.
NoRetryWord(msg) ==
  /\ \A i \in 1..Len(msg) :
       LowerWord(msg[i]) \notin {"connection", "tls", "timeout", "eof", "network"}
  /\ \A i \in 1..(Len(msg) - 1) :
       ~(LowerWord(msg[i]) = "fetch" /\ LowerWord(msg[i + 1]) = "failed")

\* Attempt 0 ended with an exception: an error of attempt 0 is recorded and it
\* is not the error of a retryable status that was retried without a throw.
FirstAttemptThrew ==
  /\ attempt = 0
  /\ lastIn.att = 0
  /\ lastError.isError
  /\ ~(SawRetryStatus /\ 0 < maxRetries)

\* C10: when attempt 0 ends with an exception whose message has none of the
\* classifier's words, the call fails at once with that error: one attempt,
\* no sleep, whatever maxRetries is.
C10_FirstAttemptNonRetryableFailsAtOnce ==
  /\ FirstAttemptThrew /\ NoRetryWord(lastError.msg) =>
       /\ pc = "failed"
       /\ thrown = lastError
       /\ nUnauth = 1
       /\ sleeps = <<>>
  /\ lastIn.att = 0 /\ lastIn.out.kind = "reject" /\ NoRetryWord(lastIn.out.err) =>
       /\ FailedThere
       /\ thrown.msg = lastIn.out.err
       /\ sleeps = <<>>

\* The first request was rejected with a DNS error although retries were left.
C10_Witness ==
  /\ lastIn.phase = "initial"
  /\ lastIn.att = 0
  /\ lastIn.out.err = <<"dns", "error">>
  /\ maxRetries >= 1
  /\ pc = "failed"


\* A fetch was rejected (a timeout included) with a message that holds one of
\* the classifier's words.
SawRetryableTransportError ==
  /\ lastIn.phase \in {"initial", "paid"}
  /\ lastIn.out.kind # "response"
  /\ ~NoRetryWord(lastIn.out.err)

\* C11: a transport exception the classifier accepts, the timeout of
\* fetchWithTimeout included, is followed by the backoff of its attempt and a
\* new attempt while attempt < maxRetries, attempt 0 included, and makes the
\* call fail with that exception on attempt maxRetries; an aborted fetch always
\* surfaces as the timeout error.
C11_RetryableTransportErrorRetried ==
  /\ lastIn.out.kind # "abort"
  /\ SawRetryableTransportError /\ lastIn.att < maxRetries =>
       /\ lastError.msg = lastIn.out.err
       /\ Len(sleeps) = lastIn.att + 1
       /\ sleeps[lastIn.att + 1] =
            <<lastIn.att, IF lastIn.att < Len(BackoffTable)
                          THEN BackoffTable[lastIn.att + 1] ELSE 10000>>
       /\ \/ pc = "sleep" /\ attempt = lastIn.att
          \/ pc = "fetch1" /\ attempt = lastIn.att + 1
  /\ SawRetryableTransportError /\ lastIn.att = maxRetries =>
       (FailedThere /\ thrown.msg = lastIn.out.err)

\* The first request timed out and the call is backing off before attempt 1.
C11_Witness ==
  /\ lastIn.phase = "initial"
  /\ lastIn.att = 0
  /\ lastIn.out.err = <<"Request", "timeout", "after", "120000ms">>
  /\ pc = "sleep"

\* An ok response whose body is not JSON.
SawUnparseableOk == SawOkResponse /\ ~lastIn.out.body.json

\* C12: an ok response whose body does not parse as JSON makes the call fail
\* with no backoff and no further request, on every attempt.
C12_ParseFailureIsTerminal == SawUnparseableOk => FailedThere


\* The option the signer was called with.
SignedOption == Accepts(signer.header)[signer.selected]

\* C13: the authorization of every signed payment has validAfter = now - 600
\* and validBefore = now + maxTimeoutSeconds (now + 300 when the option has
\* no maxTimeoutSeconds), and validAfter < now <= validBefore, whatever
\* maxTimeoutSeconds the challenge carries, 0 and negative values included.
C13_ValidityWindow ==
  signer.pc = "signed" =>
    LET auth == signer.made.payload.authorization
        timeout == SignedOption.maxTimeoutSeconds
    IN /\ auth.validAfter = signer.now - 600
       /\ auth.validBefore = signer.now + (IF timeout.set THEN timeout.val ELSE 300)
       /\ auth.validAfter < signer.now
       /\ signer.now <= auth.validBefore


\* C14: in every payload the signer builds, the authorization value, the
\* value of the signed typed-data message and accepted.amount are one amount:
\* the option's amount if it has one, else its maxAmountRequired, else "0";
\* the authorization pays accepted.payTo, and the signed validBefore is
\* now + accepted.maxTimeoutSeconds.
C14_PayloadAgrees ==
  signer.pc = "signed" =>
    LET p == signer.made.payload
        req == SignedOption
        amount == IF req.amount.set THEN req.amount
                  ELSE IF req.maxAmountRequired.set THEN req.maxAmountRequired
                  ELSE [set |-> TRUE, int |-> TRUE, val |-> 0]
    IN /\ p.authorization.value = amount
       /\ p.signature.message.value = amount.val
       /\ p.accepted.amount = amount
       /\ p.authorization.to = p.accepted.payTo
       /\ p.signature.message.to = p.accepted.payTo
       /\ p.signature.message.validBefore = signer.now + p.accepted.maxTimeoutSeconds
       /\ p.authorization.validBefore = p.signature.message.validBefore

\* An option with both amount fields and a timeout of its own was signed.
C14_Witness ==
  /\ signer.pc = "signed"
  /\ SignedOption.amount = Amount(1000)
  /\ SignedOption.maxAmountRequired = Amount(2500000)
  /\ SignedOption.maxTimeoutSeconds = Timeout(60)
  /\ signer.made.payload.accepted.amount = Amount(1000)


\* The options of a decoded header, in the order listed.
ListedOptions(header) ==
  IF header.hasAccepts THEN header.accepts ELSE <<header.self>>

\* C15: the options of the decoded challenge (its accepts list, or the
\* challenge itself when it has none) are scanned in order and the first
\* whose network is exactly "eip155:8453" or "base" is the one signed; an
\* option of another network is never signed, wherever it stands in the
\* list, and the typed-data domain always has chain id 8453.
C15_FirstBaseOptionSigned ==
  LET opts == ListedOptions(signer.header)
      base == {"eip155:8453", "base"}
  IN /\ signer.pc \in {"selected", "signed", "threw"} =>
          /\ signer.selected \in 1..Len(opts)
          /\ opts[signer.selected].network \in base
          /\ \A j \in 1..(signer.selected - 1) : opts[j].network \notin base
     /\ signer.pc = "rejected" => \A j \in 1..Len(opts) : opts[j].network \notin base
     /\ signer.pc = "signed" =>
          /\ signer.made.payload.accepted.network = opts[signer.selected].network
          /\ signer.made.payload.accepted.amount = AmountOf(opts[signer.selected])
          /\ signer.made.payload.signature.domain.chainId = 8453

\* The second option was signed: the list begins with a Solana option.
C15_Witness ==
  /\ signer.pc = "signed"
  /\ signer.header.hasAccepts
  /\ signer.header.accepts[1].network = "solana"
  /\ signer.selected = 2
  /\ signer.made.payload.accepted.network = "base"


\* The option the current attempt's challenge makes the call sign.
ChallengedOption ==
  LET opts == ListedOptions(initialOut.header)
  IN opts[CHOOSE i \in 1..Len(opts) :
            /\ opts[i].network \in {"eip155:8453", "base"}
            /\ \A j \in 1..(i - 1) : opts[j].network \notin {"eip155:8453", "base"}]

\* C16: when the call succeeds through a paid request, the payment cost of
\* the result is "$" and the atomic amount (amount, else maxAmountRequired,
\* else "0") of the challenge signed in that attempt divided by 1000000,
\* with six decimals; and the cost worked out for an amount that is no
\* integer is "Unknown".
C16_PaymentCostOfSignedChallenge ==
  /\ pc = "done" /\ lastIn.phase = "paid" =>
       LET req == ChallengedOption
           atomic == IF req.amount.set THEN req.amount.val
                     ELSE IF req.maxAmountRequired.set THEN req.maxAmountRequired.val
                     ELSE 0
       IN /\ result.att = attempt
          /\ result.value.blockrun.paymentCost.tag = "usd"
          /\ result.value.blockrun.paymentCost.dollars = atomic \div 1000000
          /\ result.value.blockrun.paymentCost.micros = atomic % 1000000
  /\ pc = "sign" /\ ~AmountOf(ChallengedOption).int => paymentCost.tag = "Unknown"

\* A retried call succeeded through a paid request for 2500000 atomic
\* units: "$2.500000".
C16_Witness ==
  /\ pc = "done"
  /\ lastIn.phase = "paid"
  /\ result.att >= 1
  /\ ChallengedOption.maxAmountRequired = Amount(2500000)
  /\ result.value.blockrun.paymentCost = [tag |-> "usd", dollars |-> 2, micros |-> 500000]


\* C17: getAIProvider gives every model string one of blockrun, openai and
\* grok, the first rule that matches deciding: a model that starts with
\* "blockrun/" or is a key of BLOCKRUN_MODELS goes to blockrun; else a model
\* of the OpenAI list or starting with "gpt-" goes to openai; every other
\* model string goes to grok.
C17_RoutingPrecedence ==
  agent.calls = 1 =>
    LET model == agent.req.body.fields.model.name
    IN agent.provider =
         IF StartsWith(model, <<"blockrun", "/">>) \/ model \in BLOCKRUN_MODELS
         THEN "blockrun"
         ELSE IF model \in OPENAI_MODELS \/ StartsWith(model, <<"gpt", "-">>)
         THEN "openai"
         ELSE "grok"


\* The one response of a request that was answered.
Answer == agent.responses[1]

\* The uniform error envelope: status 500, { success: false, error,
\* metadata } with a generated request id, a timestamp and the elapsed time.
IsErrorEnvelope(response) ==
  /\ response.status = 500
  /\ response.json
  /\ ~response.success
  /\ response.metadata.set
  /\ response.metadata.requestId = "uuid"
  /\ response.metadata.timestamp = "iso"
  /\ response.metadata.processingTimeMs \in Elapsed

\* Every request gets at most one response, and a handler that has ended
\* has sent one: no exception leaves the handler.
OneResponse ==
  /\ agent.pc \in {"off", "received", "calling", "responded"}
  /\ agent.pc \in {"received", "calling"} => agent.responses = <<>>
  /\ agent.pc = "responded" => Len(agent.responses) = 1

\* C18 as stated: every request gets exactly one response, and every
\* exception raised after the OPTIONS check, the gateway's errors among
\* them, is answered with the status-500 envelope.
C18_EveryExceptionIs500 ==
  /\ OneResponse
  /\ agent.pc = "responded" /\ agent.raised # "none" => IsErrorEnvelope(Answer)

\* C18, amended: every request gets exactly one response and no exception
\* leaves the handler; an error thrown by the gateway, and every other
\* exception raised once the request body has been read, is answered with
\* the status-500 envelope; a failure to read the body is answered with
\* status 400 and { success: false, error } without metadata.
C18_ErrorsBecomeEnvelope ==
  /\ OneResponse
  /\ agent.pc = "responded" /\ agent.raised \notin {"none", "body"} =>
       IsErrorEnvelope(Answer)
  /\ agent.pc = "responded" /\ agent.raised = "body" =>
       /\ Answer.status = 400
       /\ Answer.json
       /\ ~Answer.success
       /\ ~Answer.metadata.set

\* The gateway threw and the handler answered with the envelope.
C18_Witness ==
  /\ agent.pc = "responded"
  /\ agent.raised = "gateway"
  /\ agent.calls = 1
  /\ Answer.status = 500
  /\ Answer.error = <<"BlockRun", "API", "error:", "503">>
  /\ Answer.metadata.model = <<"unknown">>


\* C19: OPTIONS is answered with an empty CORS response, another method
\* than POST with 405, a body that cannot be parsed with 400, and a missing
\* or invalid markets, eventIdentifier, pmType or model, tested in that
\* order, with 400; no gateway is called in any of these cases.  Status 200
\* with { success: true, data, metadata } is sent only after exactly one
\* gateway call returned and its text parsed as JSON; text that is not JSON
\* gives 500 with the gateway's model id and token count in the metadata.
C19_ValidationBeforeGateway ==
  agent.pc = "responded" =>
    LET method == agent.req.method
        body == agent.req.body
        f == body.fields
        noMarkets == f.markets \in {"absent", "notArray", "empty"}
        noEvent == f.eventIdentifier = ""
        noPmType == f.pmType # "Kalshi" /\ f.pmType # "Polymarket"
        noModel == f.model.kind = "absent" \/ (f.model.kind = "string" /\ f.model.name = <<>>)
        refused(status, error) ==
          /\ Answer.status = status
          /\ Answer.error = error
          /\ ~Answer.success
          /\ agent.calls = 0
    IN /\ agent.calls \in {0, 1}
       /\ method = "OPTIONS" => ~Answer.json /\ Answer.cors /\ agent.calls = 0
       /\ method \notin {"OPTIONS", "POST"} =>
            refused(405, <<"Method", "not", "allowed.", "Use", "POST.">>)
       /\ method = "POST" =>
            /\ body.kind = "unreadable" =>
                 refused(400, <<"Invalid", "JSON", "in", "request", "body">>)
            /\ body.kind = "object" =>
                 /\ noMarkets =>
                      refused(400, <<"Missing", "or", "invalid", "'markets'", "parameter">>)
                 /\ ~noMarkets /\ noEvent =>
                      refused(400, <<"Missing", "required", "parameter:",
                                     "'eventIdentifier'">>)
                 /\ ~noMarkets /\ ~noEvent /\ noPmType =>
                      refused(400, <<"Invalid", "'pmType'.", "Must", "be", "'Kalshi'",
                                     "or", "'Polymarket'">>)
                 /\ ~noMarkets /\ ~noEvent /\ ~noPmType /\ noModel =>
                      refused(400, <<"Missing", "required", "parameter:", "'model'">>)
       /\ Answer.status = 200 /\ Answer.json =>
            /\ agent.calls = 1
            /\ ~agent.got.threw
            /\ ParseJson(ExtractText(agent.got.output)).ok
            /\ Answer.success
            /\ Answer.data = "object"
            /\ Answer.metadata.set
       /\ agent.calls = 1 /\ ~agent.got.threw
             /\ ~ParseJson(ExtractText(agent.got.output)).ok =>
            /\ Answer.status = 500
            /\ ~Answer.success
            /\ Answer.metadata.model = agent.got.model
            /\ Answer.metadata.tokensUsed = agent.got.tokens

\* The BlockRun gateway returned JSON in two pieces of text and the handler
\* answered 200 with the cost of the payment.
C19_Witness ==
  /\ agent.pc = "responded"
  /\ agent.provider = "blockrun"
  /\ agent.calls = 1
  /\ Len(agent.got.output) = 1
  /\ Len(agent.got.output[1].content) = 2
  /\ agent.got.output[1].content[1].text = <<"{">>
  /\ Answer.status = 200
  /\ Answer.success
  /\ Answer.metadata.paymentCost.tag = "usd"


\* C20: transformToResponseResult never throws on a JSON object, whatever
\* optional fields are missing.  One choice with content "X" and no usage
\* give one output item of type message whose one output_text is "X", and
\* input, output and total token counts of 0; missing or empty choices give
\* the text ""; a missing model gives "unknown"; missing citations give
\* undefined; status is always "completed".
C20_NormalizerDefaults ==
  norm.pc = "done" /\ norm.raw.isObject =>
    LET raw == norm.raw
        out == norm.out
    IN /\ ~out.threw
       /\ out.status = "completed"
       /\ Len(out.output) = 1
       /\ out.output[1].type = "message"
       /\ Len(out.output[1].content) = 1
       /\ out.output[1].content[1].type = "output_text"
       /\ raw.choices = [set |-> TRUE,
                         list |-> << [message |->
                                       [set |-> TRUE,
                                        content |-> [set |-> TRUE, val |-> "X"]]] >>] =>
            out.output[1].content[1].text = "X"
       /\ ~raw.usage.set =>
            /\ out.usage.input_tokens = 0
            /\ out.usage.output_tokens = 0
            /\ out.usage.total_tokens = 0
       /\ (~raw.choices.set \/ raw.choices.list = <<>>) =>
            out.output[1].content[1].text = ""
       /\ ~raw.model.set => out.model = "unknown"
       /\ ~raw.citations.set => ~out.blockrun.citations.set

\* A payload with one choice "X" and nothing else was normalized.
C20_Witness ==
  /\ norm.pc = "done"
  /\ norm.raw.isObject
  /\ Len(norm.raw.choices.list) = 1
  /\ ~norm.raw.usage.set
  /\ ~norm.raw.model.set
  /\ ~norm.raw.citations.set
  /\ norm.out.output[1].content[1].text = "X"
  /\ norm.out.usage.total_tokens = 0


\* C21: fetchWithTimeout performs one fetch; when timeoutMs has passed
\* without a response the request is aborted and the call fails with
\* "Request timeout after <timeoutMs>ms"; any other failure of the transport
\* is thrown unchanged; and the timer is disarmed on the way out, by return
\* or by throw, so that it never fires afterwards.
C21_TimeoutAbortsAndTimerIsDisarmed ==
  /\ wait.pc = "call" => wait.fetches = 0
  /\ wait.pc \notin {"off", "call"} => wait.fetches = 1
  /\ wait.pc = "fetching" =>
       /\ wait.timer = "armed"
       /\ wait.clock <= wait.timeoutMs
  /\ wait.pc \in {"returned", "reading", "read", "readFailed", "threw"} =>
       /\ wait.timer \in {"cleared", "fired"}
       /\ ~wait.firedLate
       /\ wait.timer = "fired" <=> wait.aborted
  /\ wait.pc \in {"returned", "reading", "read", "readFailed"} => ~wait.aborted
  /\ wait.pc = "threw" /\ wait.aborted =>
       /\ wait.clock >= wait.timeoutMs
       /\ wait.error = <<"Request", "timeout", "after",
                          IF wait.timeoutMs = 80000 THEN "80000ms" ELSE "120000ms">>
  /\ wait.pc = "threw" /\ ~wait.aborted => wait.error = wait.failure

\* The server stayed silent for 120000 ms and the call failed with the
\* timeout error.
C21_Witness ==
  /\ wait.pc = "threw"
  /\ wait.aborted
  /\ wait.timeoutMs = 120000
  /\ wait.clock = 120000
  /\ wait.timer = "fired"
  /\ wait.error = <<"Request", "timeout", "after", "120000ms">>


\* C22: no network wait of a call lasts for ever: the deadline bounds the
\* wait for the response and the reading of its body, so that whatever the
\* server does, one that never answers or never finishes its body included,
\* the wait ends, with a body read or with an error thrown.
C22_EveryWaitEnds == <>(wait.pc \in {"read", "readFailed", "threw"})


\* C23: within one call at most one HTTP request is in flight at any time;
\* the paid request of an attempt is in flight only after the unauthenticated
\* response of the same attempt was received (a 402), and the first request of
\* attempt i+1 is in flight only when every request of the attempts before has
\* settled and the backoff sleep after each of them has elapsed.
C23_OneRequestInFlight ==
  /\ inFlight \in {0, 1}
  /\ inFlight = 1 <=> pc \in {"fetch1", "fetch2"}
  /\ pc = "fetch2" =>
        /\ initialOut.kind = "response"
        /\ initialOut.status = 402
        /\ lastIn.phase = "sign"
        /\ lastIn.att = attempt
  /\ pc = "fetch1" =>
        /\ nUnauth = attempt + 1
        /\ Len(sleeps) = attempt
        /\ paidInAttempt = 0

\* C23 witness: the paid request of the second attempt is in flight, alone,
\* after one backoff sleep.
C23_Witness ==
  /\ pc = "fetch2"
  /\ attempt = 1
  /\ inFlight = 1
  /\ Len(sleeps) = 1


\* C24: concurrent callBlockRunResponses calls are independent: under every
\* interleaving each finished call has sent the requests and reached the
\* outcome that the same call reaches when it runs alone against the same
\* upstream behaviour, and a request is only ever aborted by the timer of
\* its own call.
C24_CallsAreIndependent ==
  pair.pc = "on" =>
    \A i \in Callers :
      LET c == pair.calls[i]
          alone == RunAlone(FreshCall(c.maxRetries), c.seen)
      IN /\ c.abortedBy \in {0, i}
         /\ Finished(c) =>
              /\ alone.requests = c.requests
              /\ alone.outcome = c.outcome
              /\ alone.attempt = c.attempt
              /\ alone.lastError = c.lastError

\* C24 witness: both calls have finished after running interleaved, one
\* returned a paid result on its second attempt, the other threw on the
\* timeout of its own request.
C24_Witness ==
  /\ pair.pc = "on"
  /\ pair.calls[1].pc = "returned"
  /\ pair.calls[1].attempt = 1
  /\ pair.calls[1].outcome.cost.tag = "usd"
  /\ pair.calls[2].pc = "threw"
  /\ pair.calls[2].abortedBy = 2
  /\ pair.calls[2].timer = "fired"


\* C25: on one PolymarketClient, under every interleaving of concurrent
\* placeOrder calls, createOrDeriveApiKey is called at most once and at most
\* one credentialed ClobClient is constructed.
C25_InitializedOnce ==
  clob.pc = "on" =>
    /\ clob.derives <= 1
    /\ clob.constructed <= 1


\* C26: every order that placeOrder hands to the trading client has an
\* integer size and a price within 0..1 (0..100 hundredths), for every
\* request body the limit-order bot accepts.
C26_OrdersAreInRange ==
  bot.pc # "off" =>
    \A k \in 1..Len(bot.orders) :
      /\ bot.orders[k].size \in Int
      /\ bot.orders[k].price >= 0
      /\ bot.orders[k].price <= 100

\* C27: getMarketBySlug returns null exactly on a 404 response, throws on
\* every other response that is not ok and on a transport failure (with the
\* failure's own error), and returns a market only for an ok response,
\* the parsed body of that response.
C27_MarketBySlugOutcomes ==
  (bot.pc # "off" /\ bot.market.kind # "none") =>
    LET out == bot.fetched
        got == bot.market
    IN /\ got.kind = "null" <=> (out.kind = "response" /\ out.status = 404)
       /\ (out.kind = "response" /\ ~Ok(out) /\ out.status # 404) => got.kind = "threw"
       /\ out.kind = "reject" => (got.kind = "threw" /\ got.err = out.err)
       /\ got.kind = "market" =>
            /\ out.kind = "response"
            /\ Ok(out)
            /\ out.body = "market"
            /\ got.market = out.market

\* C27 witness: the Gamma API has answered 500 and getMarketBySlug threw.
C27_Witness ==
  /\ bot.pc = "done"
  /\ bot.fetched.kind = "response"
  /\ bot.fetched.status = 500
  /\ bot.market.kind = "threw"

\* C29: getNext15MinTimestamp returns a multiple of 900 that is at least now
\* and less than now + 900 (now itself when now is a multiple of 900).
C29_NextBlockTimestamp ==
  (bot.pc # "off" /\ bot.timestamp # 0) =>
    /\ bot.timestamp % 900 = 0
    /\ bot.now <= bot.timestamp
    /\ bot.timestamp < bot.now + 900

\* C29 witness: the timestamp was computed at a moment that is itself a
\* multiple of 900.
C29_Witness ==
  /\ bot.pc = "fetching"
  /\ bot.now % 900 = 0
  /\ bot.timestamp = bot.now

\* C30: placeStraddleOrders is invoked only after getMarketBySlug returned a
\* market and extractTokenIds succeeded on it; an invalid method, an
\* unparseable body, an unsupported asset, missing credentials, a market
\* that is not found, a market fetch error and a token extraction failure
\* each end with success: false and no order handed to the trading client.
C30_NoOrdersOnFailure ==
  bot.pc # "off" =>
    LET body == bot.req.body
        failed ==
          \/ bot.req.method \notin {"POST", "OPTIONS"}
          \/ bot.req.method = "POST" /\ body.kind = "notJson"
          \/ /\ bot.req.method = "POST"
             /\ body.kind = "object"
             /\ body.asset.kind # "number"
             /\ UpperCase(body.asset.val) \notin SupportedAssets
          \/ bot.req.method = "POST" /\ (~bot.env.privateKey \/ ~bot.env.proxyAddress)
          \/ bot.market.kind \in {"null", "threw"}
          \/ /\ bot.market.kind = "market"
             /\ bot.market.market.clobTokenIds \notin {"two", "three"}
    IN /\ bot.straddles <= 1
       /\ bot.straddles = 1 =>
            /\ bot.market.kind = "market"
            /\ bot.market.market.clobTokenIds \in {"two", "three"}
            /\ bot.tokenIds = [threw |-> FALSE, up |-> "U", down |-> "D"]
       /\ bot.orders # <<>> => bot.straddles = 1
       /\ failed =>
            /\ bot.orders = <<>>
            /\ bot.straddles = 0
            /\ bot.pc = "done" => bot.response.success = FALSE

\* C30 witness: a market was returned whose clobTokenIds hold one id; the
\* handler answered success: false and handed no order over.
C30_Witness ==
  /\ bot.pc = "done"
  /\ bot.market.kind = "market"
  /\ bot.market.market.clobTokenIds = "one"
  /\ bot.response.success = FALSE
  /\ bot.response.status = 200
  /\ bot.orders = <<>>


\* C28: get-events answers 400 without a market-data call for an
\* unparseable body, a missing url, an undetectable market type and an
\* unextractable event identifier; a market-data failure whose message
\* contains "404" or, in any letter case, "not found" gives 404 and every
\* other failure 502; an empty market list gives 404; and only a non-empty
\* list gives 200 with success: true and marketsCount the number of markets.
C28_StatusMapping ==
  events.pc # "off" =>
    LET body == events.req.body
        url == body.url
        post == events.req.method = "POST"
        named == post /\ body.kind = "object" /\ url.kind = "string" /\ url # EmptyUrl
        kalshi == named /\ Mentions(url, "kalshi")
        polymarket == named /\ ~Mentions(url, "kalshi") /\ Mentions(url, "polymarket")
        refused ==
          \/ post /\ body.kind = "notJson"
          \/ post /\ body.kind = "object" /\ (url.kind = "absent" \/ url = EmptyUrl)
          \/ named /\ ~Mentions(url, "kalshi") /\ ~Mentions(url, "polymarket")
          \/ kalshi /\ LastPart(url) = "" /\ url.query = ""
          \/ polymarket /\ LastPart(url) = ""
        out == events.outcome
        done == events.pc = "done"
    IN /\ refused => (events.calls = <<>> /\ (done => events.response.status = 400))
       /\ Len(events.calls) <= 1
       /\ (done /\ out.kind = "error") =>
            events.response.status =
              IF \/ \E k \in 1..Len(out.msg) : out.msg[k] = "404"
                 \/ \E k \in 1..(Len(out.msg) - 1) :
                      /\ out.msg[k] \in {"not", "Not"}
                      /\ out.msg[k + 1] \in {"found", "Found"}
              THEN 404 ELSE 502
       /\ (done /\ out.kind = "value") => events.response.status = 502
       /\ (done /\ out.kind = "resolve" /\ out.markets = 0) =>
            (events.response.status = 404 /\ events.response.success = FALSE)
       /\ (done /\ events.response.status = 200 /\ events.req.method # "OPTIONS") =>
            /\ out.kind = "resolve"
            /\ out.markets > 0
            /\ events.response.success = TRUE
            /\ events.response.marketsCount = out.markets
       /\ (done /\ out.kind = "resolve" /\ out.markets > 0) => events.response.status = 200

\* C28 witness: the market-data call failed with "Event Not Found" and the
\* handler answered 404.
C28_Witness ==
  /\ events.pc = "done"
  /\ events.outcome = RejectsWith("error", <<"Event", "Not", "Found">>)
  /\ events.response.status = 404
  /\ Len(events.calls) = 1


\* C31: the limit-order bot answers success: true exactly when the market
\* was found and its token ids were extracted; ordersPlaced then holds the
\* result of the Up and of the Down order, and the flag does not depend on
\* those results.
C31_SuccessMeansOrdersAttempted ==
  (bot.pc = "done" /\ bot.req.method # "OPTIONS") =>
    LET extracted == /\ bot.market.kind = "market"
                     /\ bot.market.market.clobTokenIds \in {"two", "three"}
    IN /\ bot.response.success = TRUE <=> extracted
       /\ bot.response.success \in BOOLEAN
       /\ extracted =>
            /\ bot.ordersPlaced.up \in {"ok", "failed"}
            /\ bot.ordersPlaced.down \in {"ok", "failed"}
            /\ bot.response.status = 200
       /\ ~extracted => bot.ordersPlaced = NoOrders

\* C31 witness: both orders failed and the handler answered success: true.
C31_Witness ==
  /\ bot.pc = "done"
  /\ bot.ordersPlaced = [up |-> "failed", down |-> "failed"]
  /\ bot.response.success = TRUE


\* C32: placeOrder never throws.  With the private key or the proxy address
\* missing it returns success: false with the matching message and neither
\* derives credentials, constructs a client nor posts an order; a failed
\* initialization and a failed createAndPostOrder are returned as
\* success: false with the failure's message; success: true is returned
\* only by a call whose createAndPostOrder resolved.
C32_PlaceOrderNeverThrows ==
  clob.pc = "on" =>
    LET keyed == clob.config.privateKey /\ clob.config.proxyAddress
        succeeded == { i \in OrderCallers : /\ clob.callers[i].pc = "done"
                                            /\ clob.callers[i].response.success }
    IN /\ Cardinality(succeeded) = clob.posted
       /\ ~keyed => (clob.derives = 0 /\ clob.constructed = 0 /\ clob.posted = 0)
       /\ \A i \in OrderCallers :
            LET c == clob.callers[i]
            IN /\ c.pc \in {"idle", "deriving", "posting", "done"}
               /\ c.pc = "done" =>
                    /\ c.response.success \in BOOLEAN
                    /\ c.response.success => (c.client # NoClient /\ c.response.errorMsg = <<>>)
                    /\ ~clob.config.privateKey =>
                         c.response = [success |-> FALSE,
                                       errorMsg |-> <<"Missing", "private", "key.">>]
                    /\ (clob.config.privateKey /\ ~clob.config.proxyAddress) =>
                         c.response = [success |-> FALSE,
                                       errorMsg |-> <<"Missing", "proxy", "address.">>]
                    /\ (keyed /\ c.client = NoClient) =>
                         c.response = [success |-> FALSE, errorMsg |-> <<"derive", "failed">>]
                    /\ (keyed /\ c.client # NoClient /\ ~c.response.success) =>
                         c.response.errorMsg = <<"order", "rejected">>

\* C32 witness: one call returned the failure of its initialization, another
\* the rejection of its order, a third success.
C32_Witness ==
  /\ clob.pc = "on"
  /\ \A i \in OrderCallers : clob.callers[i].pc = "done"
  /\ clob.callers[1].response = [success |-> FALSE, errorMsg |-> <<"derive", "failed">>]
  /\ clob.callers[2].response = [success |-> FALSE, errorMsg |-> <<"order", "rejected">>]
  /\ clob.callers[3].response.success


\* C33: placeStraddleOrders places its legs in sequence: the Down order is
\* begun only when the outcome of the Up order is known, and it is begun
\* whatever that outcome is; every order handed to the trading client is a
\* BUY at the straddle's price with size floor(sizeUsd / price), the Up
\* token before the Down token.
C33_LegsInSequence ==
  (bot.pc # "off" /\ bot.straddles = 1) =>
    LET n == Len(bot.orders)
        usd == bot.orderSizeUsd * 100
        price == bot.orderPrice
    IN /\ bot.leg \in {"up", "down"}
       /\ bot.leg = "up" => (bot.ordersPlaced = NoOrders /\ bot.pc # "done")
       /\ bot.leg = "down" => bot.ordersPlaced.up \in {"ok", "failed"}
       /\ bot.pc = "done" => bot.ordersPlaced.down \in {"ok", "failed"}
       /\ bot.ordersPlaced.down # "none" => bot.pc = "done"
       /\ n <= 2
       /\ n = 2 => (bot.orders[1].tokenID = "U" /\ bot.orders[2].tokenID = "D"
                      /\ bot.leg = "down")
       /\ bot.ordersPlaced.up = "ok" => (n >= 1 /\ bot.orders[1].tokenID = "U")
       /\ bot.ordersPlaced.down = "ok" => (n >= 1 /\ bot.orders[n].tokenID = "D")
       /\ \A k \in 1..n :
            LET o == bot.orders[k]
            IN /\ o.side = "BUY"
               /\ o.price = price
               /\ o.tokenID \in {"U", "D"}
               /\ IF price > 0
                  THEN o.size * price <= usd /\ usd < (o.size + 1) * price
                  ELSE o.size * price >= usd /\ usd > (o.size + 1) * price

\* C33 witness: a one-legged straddle: the Up order failed, the Down order
\* was placed after it.
C33_Witness ==
  /\ bot.pc = "done"
  /\ bot.ordersPlaced = [up |-> "failed", down |-> "ok"]
  /\ Len(bot.orders) = 2
  /\ bot.orders[2].size = 52


\* C34: for placeOrder calls that do not overlap on one PolymarketClient,
\* the cached trading client is set only by a successful initialization
\* and never reset: a failed initialization leaves the cache empty and the
\* next call derives credentials again, and after the first successful
\* initialization no call derives credentials or constructs a client again.
C34_CacheSetOnceBySuccess ==
  clob.pc = "on" =>
    LET failedInits == { i \in OrderCallers :
                           /\ clob.callers[i].pc = "done"
                           /\ clob.callers[i].response.errorMsg = <<"derive", "failed">> }
        deriving == { i \in OrderCallers : clob.callers[i].pc = "deriving" }
    IN /\ clob.constructed \in {0, 1}
       /\ clob.clobClient = clob.constructed
       /\ clob.derives = Cardinality(failedInits) + Cardinality(deriving) + clob.constructed
       /\ deriving # {} => clob.clobClient = NoClient
       /\ \A i \in OrderCallers :
            clob.callers[i].client # NoClient => clob.callers[i].client = clob.clobClient

\* C34 witness: the first call failed to initialize, the second initialized
\* again and succeeded, and the third posted on the cached client.
C34_Witness ==
  /\ clob.pc = "on"
  /\ clob.derives = 2
  /\ clob.constructed = 1
  /\ \A i \in OrderCallers : clob.callers[i].pc = "done"
  /\ clob.posted = 2


\* C35: the paymentCost of a successful result is defined exactly when some
\* attempt of the call parsed a 402 challenge down to its Base option, and
\* is then the cost of the challenge parsed last, whichever attempt and
\* whichever request produced the result.
C35_CostOfLastParsedChallenge ==
  pc = "done" =>
    LET cost == result.value.blockrun.paymentCost
        atomic == AmountOf(paymentRequirements)
    IN IF ~IsBaseOption(paymentRequirements)
       THEN cost = NoCost /\ nonces = 0
       ELSE IF atomic.int
       THEN /\ cost.tag = "usd"
            /\ cost.dollars = atomic.val \div 1000000
            /\ cost.micros = atomic.val % 1000000
       ELSE cost.tag = "Unknown"

\* C35 witness: the result was built from an unpaid ok response on a later
\* attempt and carries the cost of the challenge of an earlier attempt.
C35_Witness ==
  /\ pc = "done"
  /\ lastIn.phase = "initial"
  /\ result.att >= 1
  /\ signsInAttempt = 0
  /\ result.value.blockrun.paymentCost = [tag |-> "usd", dollars |-> 2, micros |-> 500000]


\* C36: the array getLogs returned is not changed by what the client does
\* afterwards; after clearLogs the client's log is empty; and through the
\* successive flushes of a request every client entry is in the logs of the
\* response at most once, in the order of recording.
C36_LogsFlushedOnceInOrder ==
  journal.pc = "on" =>
    LET logs == journal.logs
        own == journal.arrays[journal.clientLogs]
    IN /\ journal.held # 0 => journal.arrays[journal.held] = journal.heldCopy
       /\ journal.lastOp \in {"clearLogs", "flush"} => own = <<>>
       /\ \A a \in 1..Len(logs) : \A b \in 1..Len(logs) :
            (a < b /\ logs[a] > 0 /\ logs[b] > 0) => logs[a] < logs[b]
       /\ \A a \in 1..Len(logs) : logs[a] <= journal.recorded
       /\ \A a \in 1..Len(logs) : \A b \in 1..Len(own) : logs[a] # own[b]

\* C36 witness: two flushes with a handler entry between them, and an array
\* taken with getLogs that differs from the client's log of now.
C36_Witness ==
  /\ journal.pc = "on"
  /\ journal.logs = <<1, -1, 2>>
  /\ journal.lastOp = "log"
  /\ journal.held # 0
  /\ journal.arrays[journal.held] = <<2>>
  /\ journal.arrays[journal.clientLogs] = <<3>>


\* C37: with BLOCKRUN_WALLET_KEY not set the call fails before any HTTP
\* request: no unauthenticated request, no paid request, no signature and
\* no backoff sleep, whatever maxRetries is.
C37_NoKeyNoRequest ==
  ~walletKey =>
    /\ pc \in {"idle", "failed"}
    /\ nUnauth = 0
    /\ paidHdrs = <<>>
    /\ paidInAttempt = 0
    /\ inFlight = 0
    /\ nonces = 0
    /\ sleeps = <<>>
    /\ pc = "failed" =>
         /\ thrown.isError
         /\ thrown.msg[1] = "BLOCKRUN_WALLET_KEY"

\* C37 witness: a call with maxRetries = 6 and no wallet key has failed.
C37_Witness ==
  /\ ~walletKey
  /\ pc = "failed"
  /\ maxRetries = 6
  /\ nUnauth = 0

====
